---------------------------- MODULE Spec2Model ----------------------------
(***************************************************************************)
(* A model of the sx1262 driver crate's codec layer.                       *)
(*                                                                         *)
(*   - RetentionList (src/src/registers/system.rs): the fixed-capacity     *)
(*     list of retained register addresses, its add_entry / remove_entry   *)
(*     operations and its 9-byte wire encoding.                            *)
(*   - RfFrequencyConfig and ModulationParams (src/src/commands/rf.rs):    *)
(*     the numeric transforms frequency -> register, bit rate -> register  *)
(*     and frequency deviation -> register.                                *)
(*                                                                         *)
(* TLC's integers are 32-bit signed, so a u32 or u64 of the program is a   *)
(* sequence of hexadecimal digits, most significant first (8 digits for a  *)
(* u32, 16 for a u64), and the arithmetic of the program on them is done   *)
(* digit by digit.  A u8 or u16 is a plain number.                         *)
(***************************************************************************)
EXTENDS Integers, Sequences, FiniteSets, TLC

VARIABLES
    rl,      \* the RetentionList value: [n_entries, entries]
    call,    \* the last RetentionList method call, with the list before it
    wire,    \* the byte array returned when the last call was to_bytes, else <<>>
    enc,     \* a command-parameter value, and what its to_bytes returned
             \* (wide: the u64 quotient of the scaling, before its cast)
    dec,     \* a byte array read from the chip, and what decoding it returned
    dev      \* one Device method call: its progress, the operations it handed
             \* to the SPI transaction, and its result

vars == <<rl, call, wire, enc, dec, dev>>

---------------------------------------------------------------------------
(* Bounds of the model *)

\* Register addresses offered to add_entry / remove_entry: AddrOf(0..MaxAddr)
MaxAddr == 4

\* Frequencies and deviations are tried at 0..MaxFreqOffset Hz above each base
MaxFreqOffset == 3

\* Bit rates 0..MaxSmallBitRate are tried beside the listed ones
MaxSmallBitRate == 2

---------------------------------------------------------------------------
(* RetentionList: src/src/registers/system.rs *)

MAX_RETENTION_ENTRIES == 4

\* The u16 register addresses the calls draw from.  AddrOf(0) = 0 is the value
\* of a never-written slot; the others differ in both of their bytes.
AddrOf(i) == (i * 761) % 65536

Addrs == { AddrOf(i) : i \in 0..MaxAddr }

\* #[derive(Default)]: n_entries = 0, entries = [0; 4]
RetentionListDefault ==
    [n_entries |-> 0, entries |-> [i \in 1..MAX_RETENTION_ENTRIES |-> 0]]

\* get_entries: &self.entries[..n_entries]; slicing past the array panics.
\* entries is 0-based in the source and 1-based here.
get_entries(self) ==
    IF self.n_entries > MAX_RETENTION_ENTRIES
    THEN [panic |-> TRUE, slice |-> <<>>]
    ELSE [panic |-> FALSE, slice |-> SubSeq(self.entries, 1, self.n_entries)]

Contains(s, x) == \E i \in 1..Len(s) : s[i] = x

\* add_entry mutant: the capacity check is off by one (>) and the write of a
\* fifth entry lands on the last slot
add_entry_off_by_one(self, reg_addr) ==
    IF self.n_entries > MAX_RETENTION_ENTRIES
    THEN [self |-> self, ret |-> "Err"]
    ELSE IF Contains(get_entries(self).slice, reg_addr)
    THEN [self |-> self, ret |-> "Ok"]
    ELSE IF self.n_entries = MAX_RETENTION_ENTRIES
    THEN [self |-> [self EXCEPT !.entries[MAX_RETENTION_ENTRIES] = reg_addr],
          ret |-> "Ok"]
    ELSE [self |-> [n_entries |-> self.n_entries + 1,
                    entries |-> [self.entries EXCEPT ![self.n_entries + 1] = reg_addr]],
          ret |-> "Ok"]

\* add_entry mutant: no capacity check; the write of a fifth entry is out of
\* bounds
add_entry_unchecked(self, reg_addr) ==
    IF Contains(get_entries(self).slice, reg_addr)
    THEN [self |-> self, ret |-> "Ok"]
    ELSE IF self.n_entries >= MAX_RETENTION_ENTRIES
    THEN [self |-> self, ret |-> "Panic"]
    ELSE [self |-> [n_entries |-> self.n_entries + 1,
                    entries |-> [self.entries EXCEPT ![self.n_entries + 1] = reg_addr]],
          ret |-> "Ok"]

\* add_entry mutant: no duplicate check
add_entry_no_dup_check(self, reg_addr) ==
    IF self.n_entries >= MAX_RETENTION_ENTRIES
    THEN [self |-> self, ret |-> "Err"]
    ELSE [self |-> [n_entries |-> self.n_entries + 1,
                    entries |-> [self.entries EXCEPT ![self.n_entries + 1] = reg_addr]],
          ret |-> "Ok"]

\* add_entry mutant: the new entry goes to slot 0 and the others move up
add_entry_prepend(self, reg_addr) ==
    IF self.n_entries >= MAX_RETENTION_ENTRIES
    THEN [self |-> self, ret |-> "Err"]
    ELSE IF Contains(get_entries(self).slice, reg_addr)
    THEN [self |-> self, ret |-> "Ok"]
    ELSE [self |-> [n_entries |-> self.n_entries + 1,
                    entries |-> SubSeq(<<reg_addr>> \o self.entries, 1,
                                       MAX_RETENTION_ENTRIES)],
          ret |-> "Ok"]

\* add_entry(&mut self, reg_addr) -> Result<(), ()>: the list after the call
\* and the value returned.  The capacity check comes first, so get_entries is
\* only reached with n_entries < 4 and cannot panic here.
add_entry(self, reg_addr) ==
    IF self.n_entries >= MAX_RETENTION_ENTRIES
    THEN [self |-> self, ret |-> "Err"]
    ELSE IF Contains(get_entries(self).slice, reg_addr)
    THEN [self |-> self, ret |-> "Ok"]
    ELSE [self |-> [n_entries |-> self.n_entries + 1,
                    entries |-> [self.entries EXCEPT ![self.n_entries + 1] = reg_addr]],
          ret |-> "Ok"]

\* The body of remove_entry's loop from index i (0-based) on.  Reading
\* entries[i] or entries[last] outside the array panics.
RECURSIVE remove_from(_, _, _)
remove_from(self, reg_addr, i) ==
    IF i >= self.n_entries
    THEN [self |-> self, ret |-> "Err"]
    ELSE IF i >= MAX_RETENTION_ENTRIES
    THEN [self |-> self, ret |-> "Panic"]
    ELSE IF self.entries[i + 1] = reg_addr
    THEN LET last == self.n_entries - 1
         IN  IF i # last
             THEN IF last >= MAX_RETENTION_ENTRIES
                  THEN [self |-> [self EXCEPT !.n_entries = last], ret |-> "Panic"]
                  ELSE [self |-> [n_entries |-> last,
                                  entries |-> [self.entries EXCEPT
                                                 ![i + 1] = self.entries[last + 1]]],
                        ret |-> "Ok"]
             ELSE [self |-> [self EXCEPT !.n_entries = last], ret |-> "Ok"]
    ELSE remove_from(self, reg_addr, i + 1)

\* remove_entry mutant: the scan covers all four slots, stale ones included
RECURSIVE remove_from_all_slots(_, _, _)
remove_from_all_slots(self, reg_addr, i) ==
    IF i >= MAX_RETENTION_ENTRIES \/ self.n_entries = 0
    THEN [self |-> self, ret |-> "Err"]
    ELSE IF self.entries[i + 1] = reg_addr
    THEN LET last == self.n_entries - 1
         IN  [self |-> [n_entries |-> last,
                        entries |-> [self.entries EXCEPT
                                       ![i + 1] = self.entries[last + 1]]],
              ret |-> "Ok"]
    ELSE remove_from_all_slots(self, reg_addr, i + 1)

remove_entry_scan_all(self, reg_addr) == remove_from_all_slots(self, reg_addr, 0)

\* remove_entry mutant: the hole is not filled with the last live entry
RECURSIVE remove_from_no_swap(_, _, _)
remove_from_no_swap(self, reg_addr, i) ==
    IF i >= self.n_entries
    THEN [self |-> self, ret |-> "Err"]
    ELSE IF self.entries[i + 1] = reg_addr
    THEN [self |-> [self EXCEPT !.n_entries = self.n_entries - 1], ret |-> "Ok"]
    ELSE remove_from_no_swap(self, reg_addr, i + 1)

remove_entry_no_swap(self, reg_addr) == remove_from_no_swap(self, reg_addr, 0)

\* remove_entry(&mut self, reg_addr) -> Result<(), ()>
remove_entry(self, reg_addr) == remove_from(self, reg_addr, 0)

\* u16::to_be_bytes
u16_to_be_bytes(x) == <<x \div 256, x % 256>>

\* to_bytes mutant: the entries come first and the count byte last
RetentionList_to_bytes_count_last(self) ==
    [k \in 1..(2 * MAX_RETENTION_ENTRIES + 1) |->
        IF k = 2 * MAX_RETENTION_ENTRIES + 1 THEN self.n_entries
        ELSE u16_to_be_bytes(self.entries[((k - 1) \div 2) + 1])[((k - 1) % 2) + 1]]

\* impl ToByteArray for RetentionList: arr[0] = n_entries, then for each slot
\* i (0-based) arr[2i+1], arr[2i+2] = entry.to_be_bytes().  1-based here.
RetentionList_to_bytes(self) ==
    [k \in 1..(2 * MAX_RETENTION_ENTRIES + 1) |->
        IF k = 1 THEN self.n_entries
        ELSE u16_to_be_bytes(self.entries[((k - 2) \div 2) + 1])[((k - 2) % 2) + 1]]

NoCall == [op |-> "none", arg |-> 0, ret |-> "-", pre |-> RetentionListDefault]

NoEnc ==
    [op |-> "none", input |-> <<>>, outcome |-> "-", bytes |-> <<>>,
     br_val |-> 0, wide |-> <<>>]

NoDec == [op |-> "none", input |-> <<>>, outcome |-> "-", value |-> <<>>]

NoDev ==
    [pc |-> "idle", form |-> "none", op |-> "none", target |-> "none",
     arg |-> <<>>,
     ops |-> <<>>, log |-> <<>>, txn_ok |-> FALSE, rx |-> <<>>,
     decoded |-> FALSE, result |-> [tag |-> "-", val |-> <<>>]]

InitRL ==
    /\ rl = RetentionListDefault
    /\ call = NoCall
    /\ wire = <<>>
    /\ enc = NoEnc
    /\ dec = NoDec
    /\ dev = NoDev

\* list.add_entry(a)
AddEntry ==
    \E a \in Addrs :
        LET r == add_entry(rl, a)
        IN  /\ rl' = r.self
            /\ call' = [op |-> "add_entry", arg |-> a, ret |-> r.ret, pre |-> rl]
            /\ wire' = <<>>
            /\ UNCHANGED <<enc, dec, dev>>

\* list.remove_entry(a)
RemoveEntry ==
    \E a \in Addrs :
        LET r == remove_entry(rl, a)
        IN  /\ rl' = r.self
            /\ call' = [op |-> "remove_entry", arg |-> a, ret |-> r.ret, pre |-> rl]
            /\ wire' = <<>>
            /\ UNCHANGED <<enc, dec, dev>>

\* list.to_bytes() (the list is Copy: encoding leaves it as it is)
EncodeRetentionList ==
    /\ wire' = RetentionList_to_bytes(rl)
    /\ call' = [op |-> "to_bytes", arg |-> 0, ret |-> "Ok", pre |-> rl]
    /\ UNCHANGED <<rl, enc, dec, dev>>

NextRL == AddEntry \/ RemoveEntry \/ EncodeRetentionList

\* The RetentionList state machine
Spec == InitRL /\ [][NextRL]_vars

---------------------------------------------------------------------------
(* Claims about RetentionList, checked under Spec *)

\* a is one of the live entries of list self (slots 1..n_entries here)
Live(self, a) == \E i \in 1..self.n_entries : self.entries[i] = a

LiveSet(self) == { self.entries[i] : i \in 1..self.n_entries }

\* The first (1-based) live slot of self that holds a
FirstSlot(self, a) ==
    CHOOSE i \in 1..self.n_entries :
        /\ self.entries[i] = a
        /\ \A j \in 1..(i - 1) : self.entries[j] # a

\* C1: add_entry of an address that is already live returns Ok and leaves the
\* live count and all four slots unchanged, in every reachable list, the full
\* one included.  (Violated: on a full list the call returns Err.)
C1_AddLiveIsOkNoOp ==
    (call.op = "add_entry" /\ Live(call.pre, call.arg))
        => (call.ret = "Ok" /\ rl = call.pre)

\* C2: from a list with fewer than 4 live entries and an address a that is
\* not live, add_entry(a); add_entry(a) both return Ok, the live count has
\* grown by exactly one and a occurs exactly once among the live entries.
\* (Violated: from 3 live entries the second call returns Err.)
C2_AddTwiceYieldsOneEntry ==
    [][ ( /\ call.op = "add_entry"
          /\ call.pre.n_entries < MAX_RETENTION_ENTRIES
          /\ ~Live(call.pre, call.arg)
          /\ call'.op = "add_entry"
          /\ call'.arg = call.arg )
        => ( /\ call.ret = "Ok"
             /\ call'.ret = "Ok"
             /\ rl'.n_entries = call.pre.n_entries + 1
             /\ Cardinality({ i \in 1..rl'.n_entries :
                                rl'.entries[i] = call.arg }) = 1 ) ]_vars

\* C3: on a list with 4 live entries, add_entry of an address that is not
\* live returns Err and leaves the live count and all four slots unchanged.
C3_AddToFullListFails ==
    ( /\ call.op = "add_entry"
      /\ call.pre.n_entries = MAX_RETENTION_ENTRIES
      /\ ~Live(call.pre, call.arg) )
        => (call.ret = "Err" /\ rl = call.pre)

C3_Witness ==
    /\ call.op = "add_entry"
    /\ call.pre.n_entries = MAX_RETENTION_ENTRIES
    /\ ~Live(call.pre, call.arg)
    /\ call.ret = "Err"

C5_RemoveAbsentFails ==
    (call.op = "remove_entry" /\ ~Live(call.pre, call.arg))
        => (call.ret = "Err" /\ rl = call.pre)

\* the removed address is not live but a removal has left it in a stale slot
C5_Witness ==
    /\ call.op = "remove_entry"
    /\ ~Live(call.pre, call.arg)
    /\ call.arg # 0
    /\ call.pre.n_entries > 0
    /\ \E i \in (call.pre.n_entries + 1)..MAX_RETENTION_ENTRIES :
           call.pre.entries[i] = call.arg
    /\ call.ret = "Err"

\* C6: RetentionList encodes to exactly 9 bytes in every state: byte 0 is the
\* live count, and bytes 2i+1, 2i+2 are the high and the low byte of slot i,
\* i = 0..3, in slot order (bytes and slots are numbered from 1 here).
C6_EncodeLayout ==
    call.op = "to_bytes"
        => /\ Len(wire) = 9
           /\ wire[1] = rl.n_entries
           /\ \A i \in 0..3 :
                 /\ wire[2 * i + 2] = rl.entries[i + 1] \div 256
                 /\ wire[2 * i + 3] = rl.entries[i + 1] % 256
                 /\ 256 * wire[2 * i + 2] + wire[2 * i + 3] = rl.entries[i + 1]

\* a list with live and stale slots of distinct two-byte addresses is encoded
C6_Witness ==
    /\ call.op = "to_bytes"
    /\ rl.n_entries = 2
    /\ \A i \in 1..MAX_RETENTION_ENTRIES : rl.entries[i] > 255
    /\ Len(wire) = 9

---------------------------------------------------------------------------
(* Wide unsigned integers: hexadecimal digits, most significant first *)

\* The w-digit form of a number n < 2^31
RECURSIVE ToDigits(_, _)
ToDigits(n, w) ==
    IF w = 0 THEN <<>> ELSE Append(ToDigits(n \div 16, w - 1), n % 16)

\* The number a digit sequence stands for, when it is below 2^31
RECURSIVE ToNat(_)
ToNat(d) ==
    IF Len(d) = 0 THEN 0 ELSE 16 * ToNat(SubSeq(d, 1, Len(d) - 1)) + d[Len(d)]

IsZero(d) == \A k \in 1..Len(d) : d[k] = 0

\* d * m + c in the width of d and the carry out of it, from the last digit
\* up: digits 1..k of d are still to do, c is the carry into digit k and acc
\* holds the digits done.  m, c < 2^26.
RECURSIVE MulAddFrom(_, _, _, _, _)
MulAddFrom(d, m, c, k, acc) ==
    IF k = 0 THEN [digits |-> acc, carry |-> c]
    ELSE MulAddFrom(d, m, (d[k] * m + c) \div 16, k - 1,
                    <<(d[k] * m + c) % 16>> \o acc)

MulAdd(d, m, c) == MulAddFrom(d, m, c, Len(d), <<>>)

\* d / m, truncated, in the width of d: long division from the first digit
\* down, rem the remainder of the digits before k.  m < 2^27.
RECURSIVE DivFrom(_, _, _, _, _)
DivFrom(d, m, k, rem, acc) ==
    IF k > Len(d) THEN acc
    ELSE DivFrom(d, m, k + 1, (rem * 16 + d[k]) % m,
                 Append(acc, (rem * 16 + d[k]) \div m))

DivTrunc(d, m) == DivFrom(d, m, 1, 0, <<>>)

\* x <= y for digit sequences of one width
RECURSIVE DigitsLeq(_, _)
DigitsLeq(x, y) ==
    IF Len(x) = 0 THEN TRUE
    ELSE IF x[1] # y[1] THEN x[1] < y[1]
    ELSE DigitsLeq(Tail(x), Tail(y))

\* The u32 of m * 1,000,000 + r Hz, for m <= 4294 and r < 1,000,000
Hz(m, r) == MulAdd(ToDigits(m, 8), 1000000, r).digits

---------------------------------------------------------------------------
(* RfFrequencyConfig and ModulationParams: src/src/commands/rf.rs *)

\* FXTAL, the literal 32_000_000 of both to_bytes
FXTAL == 32000000

\* The shift of 1_u64 << 25
FreqShift == 25

\* x as u64, for a u32 x
as_u64(x) == ToDigits(0, 8) \o x

\* x as u32, for a u64 x: the low 32 bits
as_u32(x) == SubSeq(x, 9, 16)

\* a * m for a u64 a: the wrapped product, and whether it overflowed
u64_mul(a, m) ==
    [value |-> MulAdd(a, m, 0).digits, overflow |-> MulAdd(a, m, 0).carry # 0]

\* u64 division mutant: the quotient is rounded to nearest
u64_div_round(a, m) == DivTrunc(MulAdd(a, 1, m \div 2).digits, m)

\* a / m for a u64 a: integer division truncates
u64_div(a, m) == DivTrunc(a, m)

\* u32::to_be_bytes
u32_to_be_bytes(x) ==
    <<16 * x[1] + x[2], 16 * x[3] + x[4], 16 * x[5] + x[6], 16 * x[7] + x[8]>>

\* RfFrequencyConfig::to_bytes mutant: the product is computed in 32 bits
\* (the `as u64` is on the product, not on the factor) and wraps
RfFrequencyConfig_to_bytes_u32(self, overflow_checks) ==
    LET prod == u64_mul(as_u64(self.frequency), 2 ^ FreqShift)
        quot == u64_div(as_u64(as_u32(prod.value)), FXTAL)
    IN  [outcome |-> "Ok", bytes |-> u32_to_be_bytes(as_u32(quot)), quot |-> quot]

\* RfFrequencyConfig::to_bytes:
\*   ((self.frequency as u64 * (1_u64 << 25)) / 32_000_000) as u32, to_be_bytes.
\* quot is the u64 quotient before the cast.  An overflowing product panics
\* when the build checks overflow and wraps when it does not.
RfFrequencyConfig_to_bytes(self, overflow_checks) ==
    LET prod == u64_mul(as_u64(self.frequency), 2 ^ FreqShift)
        quot == u64_div(prod.value, FXTAL)
    IN  IF prod.overflow /\ overflow_checks
        THEN [outcome |-> "Panic", bytes |-> <<>>, quot |-> quot]
        ELSE [outcome |-> "Ok", bytes |-> u32_to_be_bytes(as_u32(quot)), quot |-> quot]

\* enum GfskPulseShape, each variant with its discriminant
GfskPulseShape ==
    [NoFilter |-> 0, Bt03 |-> 8, Bt05 |-> 9, Bt07 |-> 10, Bt1 |-> 11]

\* enum GfskBandwidth
GfskBandwidth ==
    [Bw48 |-> 31, Bw58 |-> 23, Bw73 |-> 15, Bw97 |-> 30, Bw117 |-> 22,
     Bw146 |-> 14, Bw293 |-> 13, Bw39 |-> 28, Bw469 |-> 20, Bw586 |-> 12,
     Bw782 |-> 27, Bw938 |-> 19, Bw1173 |-> 11, Bw1562 |-> 26, Bw1872 |-> 18,
     Bw2323 |-> 10, Bw3120 |-> 25, Bw3736 |-> 17, Bw4670 |-> 9]

\* enum SpreadingFactor
SpreadingFactor ==
    [SF5 |-> 5, SF6 |-> 6, SF7 |-> 7, SF8 |-> 8, SF9 |-> 9, SF10 |-> 10,
     SF11 |-> 11, SF12 |-> 12]

\* enum LoRaBandwidth
LoRaBandwidth ==
    [Bw7 |-> 0, Bw10 |-> 8, Bw15 |-> 1, Bw20 |-> 9, Bw31 |-> 2, Bw41 |-> 10,
     Bw62 |-> 3, Bw125 |-> 4, Bw250 |-> 5, Bw500 |-> 6]

\* enum CodingRate
CodingRate == [Cr45 |-> 1, Cr46 |-> 2, Cr47 |-> 3, Cr48 |-> 4]

\* bool as u8
bool_as_u8(b) == IF b THEN 1 ELSE 0

\* (32 * 32_000_000) / bit_rate in u32: the dividend is below 2^31, so a
\* divisor with its top bit set gives 0; a zero divisor panics.
u32_div(a, b) ==
    IF IsZero(b) THEN [panic |-> TRUE, value |-> 0]
    ELSE IF b[1] >= 8 THEN [panic |-> FALSE, value |-> 0]
    ELSE [panic |-> FALSE, value |-> a \div ToNat(b)]

\* .to_be_bytes()[1..] mutant: the first three bytes, [..3]
top3(bytes) == SubSeq(bytes, 1, 3)

\* The last three of the four big-endian bytes: to_be_bytes()[1..]
low3(bytes) == SubSeq(bytes, 2, 4)

\* ModulationParams::to_bytes on the 8 zeroed bytes.  br_val and fdev are the
\* locals of the Gfsk arm (fdev before its cast to u32).
ModulationParams_to_bytes(self, overflow_checks) ==
    IF self.variant = "Gfsk"
    THEN LET br   == u32_div(32 * FXTAL, self.bit_rate)
             prod == u64_mul(as_u64(self.freq_deviation), 2 ^ FreqShift)
             fdev == u64_div(prod.value, FXTAL)
         IN  IF br.panic \/ (prod.overflow /\ overflow_checks)
             THEN [outcome |-> "Panic", bytes |-> <<>>, br_val |-> 0, fdev |-> fdev]
             ELSE [outcome |-> "Ok",
                   bytes   |-> low3(u32_to_be_bytes(ToDigits(br.value, 8)))
                               \o <<GfskPulseShape[self.pulse_shape],
                                    GfskBandwidth[self.bandwidth]>>
                               \o low3(u32_to_be_bytes(as_u32(fdev))),
                   br_val  |-> br.value,
                   fdev    |-> fdev]
    ELSE [outcome |-> "Ok",
          bytes   |-> <<SpreadingFactor[self.spreading_factor],
                        LoRaBandwidth[self.bandwidth],
                        CodingRate[self.coding_rate],
                        bool_as_u8(self.low_data_rate_opt), 0, 0, 0, 0>>,
          br_val  |-> 0,
          fdev    |-> ToDigits(0, 16)]

\* Frequencies in Hz offered to RfFrequencyConfig: in and out of the
\* 150-960 MHz range, around 2^31, around 4096 MHz (where the register value
\* passes 2^32) and up to u32::MAX
FreqInputs ==
    { Hz(m, r + k) : m \in {0, 150, 433, 868, 915, 960, 2147, 4095, 4096, 4294},
                     r \in {0, 1000, 483647, 500000},
                     k \in 0..MaxFreqOffset }
    \cup { Hz(4294, 967295 - k) : k \in 0..MaxFreqOffset }

\* Bit rates offered to GfskModParams: 0, below and above 61 (where the
\* quotient passes 2^24), the documented 600..300000, the dividend itself and
\* values with the top bit set
BitRateInputs ==
    { ToDigits(n, 8) : n \in (0..MaxSmallBitRate)
                             \cup {61, 62, 600, 9600, 300000,
                                   1024000000, 1024000001} }
    \cup { Hz(2147, 483648), Hz(4294, 967295) }

\* Frequency deviations offered to GfskModParams
FreqDevInputs ==
    { Hz(0, k) : k \in 0..MaxFreqOffset }
    \cup { Hz(0, 25000), Hz(15, 999999), Hz(16, 0), Hz(4294, 967295) }

GfskInputs ==
    { [variant |-> "Gfsk", bit_rate |-> br, pulse_shape |-> ps,
       bandwidth |-> bw, freq_deviation |-> fd] :
        br \in BitRateInputs, ps \in DOMAIN GfskPulseShape,
        bw \in DOMAIN GfskBandwidth, fd \in FreqDevInputs }

LoRaInputs ==
    { [variant |-> "LoRa", spreading_factor |-> sf, bandwidth |-> bw,
       coding_rate |-> cr, low_data_rate_opt |-> ldro] :
        sf \in DOMAIN SpreadingFactor, bw \in DOMAIN LoRaBandwidth,
        cr \in DOMAIN CodingRate, ldro \in BOOLEAN }

\* enum PreambleDetectorLength
PreambleDetectorLength ==
    [Off |-> 0, Bits8 |-> 4, Bits16 |-> 5, Bits24 |-> 6, Bits32 |-> 7]

\* enum AddressFiltering
AddressFiltering == [Disable |-> 0, Node |-> 1, NodeAndBroadcast |-> 2]

\* enum GFSKPacketHeaderType
GFSKPacketHeaderType == [Fixed |-> 0, Variable |-> 1]

\* enum LoraPacketHeaderType
LoraPacketHeaderType == [Fixed |-> 1, Variable |-> 0]

\* enum CrcType
CrcType ==
    [CrcOff |-> 1, Crc1Byte |-> 0, Crc2Byte |-> 2, Crc1ByteInv |-> 4,
     Crc2ByteInv |-> 6]

\* GFSKPacketParams::to_bytes.  preamble_length.to_bytes() is the two-byte
\* big-endian array of the u16.
GFSKPacketParams_to_bytes(self) ==
    u16_to_be_bytes(self.preamble_length)
    \o <<PreambleDetectorLength[self.preamble_detector_length],
         self.sync_word_length,
         AddressFiltering[self.address_filtering],
         GFSKPacketHeaderType[self.packet_type],
         self.payload_length,
         CrcType[self.crc_type],
         bool_as_u8(self.whitening_enable)>>

\* LoRaPacketParams::to_bytes mutant: a padding byte is written before the
\* IQ flag instead of after it
LoRaPacketParams_to_bytes_shifted(self) ==
    u16_to_be_bytes(self.preamble_length)
    \o <<LoraPacketHeaderType[self.header_type],
         self.payload_length,
         bool_as_u8(self.crc_enable),
         0,
         bool_as_u8(self.iq_inversion_enable),
         0, 0>>

\* LoRaPacketParams::to_bytes
LoRaPacketParams_to_bytes(self) ==
    u16_to_be_bytes(self.preamble_length)
    \o <<LoraPacketHeaderType[self.header_type],
         self.payload_length,
         bool_as_u8(self.crc_enable),
         bool_as_u8(self.iq_inversion_enable),
         0, 0, 0>>

\* PacketParams::to_bytes: the to_bytes of the variant
PacketParams_to_bytes(self) ==
    IF self.variant = "GFSK"
    THEN [outcome |-> "Ok", bytes |-> GFSKPacketParams_to_bytes(self)]
    ELSE [outcome |-> "Ok", bytes |-> LoRaPacketParams_to_bytes(self)]

\* Preamble lengths offered to the packet parameters
PreambleInputs == {0, 8, 4660, 65535}

GfskPacketInputs ==
    { [variant |-> "GFSK", preamble_length |-> pl,
       preamble_detector_length |-> pd, sync_word_length |-> sw,
       address_filtering |-> af, packet_type |-> pt, payload_length |-> len,
       crc_type |-> crc, whitening_enable |-> wh] :
        pl \in PreambleInputs, pd \in DOMAIN PreambleDetectorLength,
        sw \in {0, 64}, af \in DOMAIN AddressFiltering,
        pt \in DOMAIN GFSKPacketHeaderType, len \in {0, 1, 255},
        crc \in DOMAIN CrcType, wh \in BOOLEAN }

LoRaPacketInputs ==
    { [variant |-> "LoRa", preamble_length |-> pl, header_type |-> ht,
       payload_length |-> len, crc_enable |-> crc,
       iq_inversion_enable |-> iq] :
        pl \in PreambleInputs, ht \in DOMAIN LoraPacketHeaderType,
        len \in {0, 1, 255}, crc \in BOOLEAN, iq \in BOOLEAN }

\* Timeout::to_bytes mutant: only the low 24 bits are written
Timeout_to_bytes_24bit(self) ==
    [outcome |-> "Ok", bytes |-> <<0>> \o low3(u32_to_be_bytes(self))]

\* impl ToByteArray for Timeout; self is the u32 in hexadecimal digits
Timeout_to_bytes(self) == [outcome |-> "Ok", bytes |-> u32_to_be_bytes(self)]

\* impl From<RxMode> for Timeout
Timeout_from_RxMode(mode) ==
    CASE mode.variant = "Single" -> ToDigits(0, 8)
      [] mode.variant = "Continuous" -> ToDigits(16777215, 8)
      [] mode.variant = "Timed" -> mode.timeout

\* SetRx::invoking_parameters: self.mode.into()
SetRx_invoking_parameters(self) == Timeout_from_RxMode(self.mode)

\* Timeouts offered to RxMode::Timed: around 0, around 0xFFFFFF, values that
\* differ from these only above bit 23, and u32::MAX
TimedInputs ==
    { ToDigits(n, 8) : n \in {0, 1, 255, 256, 65536, 16777214, 16777215,
                              16777216, 33554431, 2147483647} }
    \cup { <<15, 15, 0, 0, 0, 0, 0, 0>>, <<8, 0, 0, 0, 0, 0, 0, 0>>,
           <<15, 15, 15, 15, 15, 15, 15, 15>> }

\* RxMode values; the payload of Single and Continuous is unused
RxModeInputs ==
    { [variant |-> "Single", timeout |-> ToDigits(0, 8)],
      [variant |-> "Continuous", timeout |-> ToDigits(0, 8)] }
    \cup { [variant |-> "Timed", timeout |-> t] : t \in TimedInputs }

\* A value handed to to_bytes and not yet encoded
Pending(op, input) ==
    [op |-> op, input |-> input, outcome |-> "Pending", bytes |-> <<>>,
     br_val |-> 0, wide |-> <<>>]

\* One parameter value has been constructed; to_bytes takes it by value
InitEnc ==
    /\ rl = RetentionListDefault
    /\ call = NoCall
    /\ wire = <<>>
    /\ dec = NoDec
    /\ dev = NoDev
    /\ enc \in { Pending("RfFrequencyConfig", [frequency |-> f]) : f \in FreqInputs }
             \cup { Pending("ModulationParams", p) : p \in GfskInputs \cup LoRaInputs }
             \cup { Pending("PacketParams", p) :
                        p \in GfskPacketInputs \cup LoRaPacketInputs }
             \cup { Pending("SetRx", [mode |-> m]) : m \in RxModeInputs }

\* RfFrequencyConfig { frequency }.to_bytes()
EncodeRfFrequency ==
    /\ enc.op = "RfFrequencyConfig"
    /\ enc.outcome = "Pending"
    /\ \E overflow_checks \in BOOLEAN :
        LET r == RfFrequencyConfig_to_bytes(enc.input, overflow_checks)
        IN  enc' = [enc EXCEPT !.outcome = r.outcome, !.bytes = r.bytes,
                               !.wide = r.quot]
    /\ UNCHANGED <<rl, call, wire, dec, dev>>

\* ModulationParams::Gfsk(params).to_bytes()
EncodeGfskModulation ==
    /\ enc.op = "ModulationParams"
    /\ enc.input.variant = "Gfsk"
    /\ enc.outcome = "Pending"
    /\ \E overflow_checks \in BOOLEAN :
        LET r == ModulationParams_to_bytes(enc.input, overflow_checks)
        IN  enc' = [enc EXCEPT !.outcome = r.outcome, !.bytes = r.bytes,
                               !.br_val = r.br_val, !.wide = r.fdev]
    /\ UNCHANGED <<rl, call, wire, dec, dev>>

\* ModulationParams::LoRa(params).to_bytes()
EncodeLoRaModulation ==
    /\ enc.op = "ModulationParams"
    /\ enc.input.variant = "LoRa"
    /\ enc.outcome = "Pending"
    /\ \E overflow_checks \in BOOLEAN :
        LET r == ModulationParams_to_bytes(enc.input, overflow_checks)
        IN  enc' = [enc EXCEPT !.outcome = r.outcome, !.bytes = r.bytes,
                               !.br_val = r.br_val, !.wide = r.fdev]
    /\ UNCHANGED <<rl, call, wire, dec, dev>>

\* PacketParams::GFSK(params).to_bytes() or PacketParams::LoRa(params).to_bytes()
EncodePacketParams ==
    /\ enc.op = "PacketParams"
    /\ enc.outcome = "Pending"
    /\ LET r == PacketParams_to_bytes(enc.input)
       IN  enc' = [enc EXCEPT !.outcome = r.outcome, !.bytes = r.bytes]
    /\ UNCHANGED <<rl, call, wire, dec, dev>>

\* SetRx { mode }.invoking_parameters().to_bytes()
EncodeSetRx ==
    /\ enc.op = "SetRx"
    /\ enc.outcome = "Pending"
    /\ LET r == Timeout_to_bytes(SetRx_invoking_parameters(enc.input))
       IN  enc' = [enc EXCEPT !.outcome = r.outcome, !.bytes = r.bytes]
    /\ UNCHANGED <<rl, call, wire, dec, dev>>

NextEnc ==
    \/ EncodeRfFrequency
    \/ EncodeGfskModulation
    \/ EncodeLoRaModulation
    \/ EncodePacketParams
    \/ EncodeSetRx

\* The command-parameter encoders, applied to the inputs above
SpecEnc == InitEnc /\ [][NextEnc]_vars

---------------------------------------------------------------------------
(* Claims about the numeric transforms, checked under SpecEnc *)

\* to_bytes of the named type has been called and has returned or panicked
Encoded(op) == enc.op = op /\ enc.outcome # "Pending"

\* q is the truncated quotient of x * 2^25 by 32,000,000, for a u32 x and a
\* u64 q: q * 32,000,000 <= x * 2^25 <= q * 32,000,000 + 31,999,999, all in
\* 18 digits.  x * 2^25 is 2 * x moved up six hexadecimal digits.
IsFloorOfScaled(q, x) ==
    LET p == <<0, 0, 0>> \o MulAdd(<<0>> \o x, 2, 0).digits \o <<0, 0, 0, 0, 0, 0>>
    IN  /\ MulAdd(<<0, 0>> \o q, FXTAL, 0).carry = 0
        /\ DigitsLeq(MulAdd(<<0, 0>> \o q, FXTAL, 0).digits, p)
        /\ DigitsLeq(p, MulAdd(<<0, 0>> \o q, FXTAL, FXTAL - 1).digits)

\* The quotient q of x * 2^25 by 32,000,000 leaves a remainder of at least
\* 16,000,000: rounding to nearest would give q + 1
RoundsUp(q, x) ==
    LET p == <<0, 0, 0>> \o MulAdd(<<0>> \o x, 2, 0).digits \o <<0, 0, 0, 0, 0, 0>>
    IN  ~DigitsLeq(p, MulAdd(<<0, 0>> \o q, FXTAL, (FXTAL \div 2) - 1).digits)

\* C7 as stated: frequency 868,000,000 Hz encodes to register value
\* 907,345,920, the big-endian bytes 0x36 0x14 0x00 0x00.
C7_Original ==
    (Encoded("RfFrequencyConfig") /\ enc.input.frequency = Hz(868, 0))
        => /\ enc.outcome = "Ok"
           /\ IsZero(SubSeq(enc.wide, 1, 8))
           /\ ToNat(as_u32(enc.wide)) = 907345920
           /\ enc.bytes = <<54, 20, 0, 0>>

\* C7 (amended): frequency 868,000,000 Hz encodes to register value
\* 910,163,968 = floor(868,000,000 * 2^25 / 32,000,000), the big-endian bytes
\* 0x36 0x40 0x00 0x00.
C7_Encode868MHz ==
    (Encoded("RfFrequencyConfig") /\ enc.input.frequency = Hz(868, 0))
        => /\ enc.outcome = "Ok"
           /\ IsZero(SubSeq(enc.wide, 1, 8))
           /\ ToNat(as_u32(enc.wide)) = 910163968
           /\ IsFloorOfScaled(enc.wide, Hz(868, 0))
           /\ enc.bytes = <<54, 64, 0, 0>>

C7_Witness ==
    /\ enc.op = "RfFrequencyConfig"
    /\ enc.input.frequency = Hz(868, 0)
    /\ enc.input.frequency = <<3, 3, 11, 12, 10, 1, 0, 0>>
    /\ enc.outcome = "Ok"

\* C8: for every 32-bit frequency f, RfFrequencyConfig encodes to the 4
\* big-endian bytes of floor(f * 2^25 / 32,000,000) mod 2^32: the 64-bit
\* product does not overflow, the division truncates, only the low 32 bits
\* of the quotient are kept, and no input makes the encode fail.
C8_FrequencyRegister ==
    Encoded("RfFrequencyConfig")
        => /\ enc.outcome = "Ok"
           /\ ~u64_mul(as_u64(enc.input.frequency), 2 ^ FreqShift).overflow
           /\ IsFloorOfScaled(enc.wide, enc.input.frequency)
           /\ Len(enc.bytes) = 4
           /\ \A k \in 1..4 :
                 enc.bytes[k] = 16 * enc.wide[8 + 2 * k - 1] + enc.wide[8 + 2 * k]

\* an out-of-range frequency whose quotient does not fit 32 bits and whose
\* remainder would round up
C8_Witness ==
    /\ enc.op = "RfFrequencyConfig"
    /\ enc.outcome = "Ok"
    /\ ~IsZero(SubSeq(enc.wide, 1, 8))
    /\ RoundsUp(enc.wide, enc.input.frequency)

\* C9: for GFSK parameters with bit_rate > 0 the 8 bytes are: bytes 0..2 the
\* big-endian low 24 bits of floor(1,024,000,000 / bit_rate), byte 3 the
\* pulse-shape code, byte 4 the bandwidth code, bytes 5..7 the big-endian low
\* 24 bits of floor(freq_deviation * 2^25 / 32,000,000).  (Bytes are numbered
\* from 1 here.)
C9_GfskLayout ==
    ( /\ Encoded("ModulationParams")
      /\ enc.input.variant = "Gfsk"
      /\ ~IsZero(enc.input.bit_rate) )
        => LET b == enc.input.bit_rate
               q == enc.br_val
           IN  /\ enc.outcome = "Ok"
               /\ Len(enc.bytes) = 8
               /\ q >= 0
               /\ IF b[1] >= 8 \/ ToNat(b) > 1024000000
                  THEN q = 0
                  ELSE /\ q <= 1024000000 \div ToNat(b)
                       /\ 1024000000 - q * ToNat(b) >= 0
                       /\ 1024000000 - q * ToNat(b) < ToNat(b)
               /\ enc.bytes[1] = (q \div 65536) % 256
               /\ enc.bytes[2] = (q \div 256) % 256
               /\ enc.bytes[3] = q % 256
               /\ enc.bytes[4] = GfskPulseShape[enc.input.pulse_shape]
               /\ enc.bytes[5] = GfskBandwidth[enc.input.bandwidth]
               /\ IsFloorOfScaled(enc.wide, enc.input.freq_deviation)
               /\ \A k \in 1..3 :
                     enc.bytes[5 + k] =
                         16 * enc.wide[10 + 2 * k - 1] + enc.wide[10 + 2 * k]

\* both quotients need more than 24 bits, so a top byte is discarded twice
C9_Witness ==
    /\ enc.op = "ModulationParams"
    /\ enc.input.variant = "Gfsk"
    /\ ~IsZero(enc.input.bit_rate)
    /\ enc.outcome = "Ok"
    /\ enc.br_val >= 16777216
    /\ ~IsZero(SubSeq(enc.wide, 1, 10))

\* C10: to_bytes returns an 8-byte array for every ModulationParams value,
\* GFSK parameters with bit_rate = 0 included, and never panics.
\* (Violated: bit_rate = 0 panics on the division.)
C10_ModulationEncodeTotal ==
    Encoded("ModulationParams")
        => (enc.outcome = "Ok" /\ Len(enc.bytes) = 8)

\* C11: both variants of ModulationParams encode to exactly 8 bytes and both
\* variants of PacketParams to exactly 9; for the LoRa variants the unused
\* trailing bytes are zero (modulation bytes 4..7, packet bytes 6..8, numbered
\* from 0; 5..8 and 7..9 here), whatever the field values.  A GFSK encode that
\* panics (C10) returns no array and is left to C10.
C11_FixedWidth ==
    /\ (Encoded("ModulationParams") /\ enc.outcome = "Ok")
           => /\ Len(enc.bytes) = 8
              /\ enc.input.variant = "LoRa"
                    => \A k \in 5..8 : enc.bytes[k] = 0
    /\ Encoded("PacketParams")
           => /\ enc.outcome = "Ok"
              /\ Len(enc.bytes) = 9
              /\ enc.input.variant = "LoRa"
                    => \A k \in 7..9 : enc.bytes[k] = 0

\* a LoRa packet value with every field non-zero has been encoded
C11_Witness ==
    /\ Encoded("PacketParams")
    /\ enc.input.variant = "LoRa"
    /\ enc.input.preamble_length = 65535
    /\ enc.input.payload_length = 255
    /\ enc.input.crc_enable
    /\ enc.input.iq_inversion_enable
    /\ enc.input.header_type = "Fixed"
    /\ enc.bytes = <<255, 255, 1, 255, 1, 1, 0, 0, 0>>


-----------------------------------------------------------------------------
(* Decoders: TryFrom<u8> and FromByteArray::from_bytes of the values read    *)
(* back from the chip.  A Result is a record [tag, val]; a panic (unwrap of  *)
(* an Err) is the tag "Panic".                                               *)

Ok(v) == [tag |-> "Ok", val |-> v]

Err(e) == [tag |-> "Err", val |-> e]

Panicked == [tag |-> "Panic", val |-> <<>>]

\* Result::unwrap
unwrap(r) == IF r.tag = "Ok" THEN r ELSE Panicked

\* u8 >> n
shr(x, n) == x \div (2 ^ n)

\* u8 & 0x7
and7(x) == x % 8

\* All values of a u8
Bytes == 0..255

\* enum OperatingMode (discriminants)
OperatingMode ==
    [StandbyRc |-> 2, StandbyXosc |-> 3, FrequencySynthesizer |-> 4,
     Receive |-> 5, Transmit |-> 6]

\* enum CommandStatus (discriminants)
CommandStatus ==
    [DataAvailable |-> 2, Timeout |-> 3, ProcessingError |-> 4,
     ExecutionFailure |-> 5, TxDone |-> 6]

\* OperatingModeError::InvalidValue(v)
OperatingModeError(v) == [err |-> "OperatingModeError::InvalidValue", arg |-> v]

\* CommandStatusError::InvalidValue(v)
CommandStatusError(v) == [err |-> "CommandStatusError::InvalidValue", arg |-> v]

\* StatusError::InvalidMode(e)
InvalidMode(e) == [err |-> "StatusError::InvalidMode", arg |-> e]

\* StatusError::InvalidCommandStatus(e)
InvalidCommandStatus(e) == [err |-> "StatusError::InvalidCommandStatus", arg |-> e]

\* OperatingMode::try_from mutant: 0x5 and 0x6 exchanged
OperatingMode_try_from_tx5(value) ==
    CASE value = 2 -> Ok("StandbyRc")
      [] value = 3 -> Ok("StandbyXosc")
      [] value = 4 -> Ok("FrequencySynthesizer")
      [] value = 5 -> Ok("Transmit")
      [] value = 6 -> Ok("Receive")
      [] OTHER     -> Err(OperatingModeError(value))

\* impl TryFrom<u8> for OperatingMode
OperatingMode_try_from(value) ==
    CASE value = 2 -> Ok("StandbyRc")
      [] value = 3 -> Ok("StandbyXosc")
      [] value = 4 -> Ok("FrequencySynthesizer")
      [] value = 5 -> Ok("Receive")
      [] value = 6 -> Ok("Transmit")
      [] OTHER     -> Err(OperatingModeError(value))

\* CommandStatus::try_from mutant: the catch-all arm yields a variant
CommandStatus_try_from_default(value) ==
    CASE value = 2 -> Ok("DataAvailable")
      [] value = 3 -> Ok("Timeout")
      [] value = 4 -> Ok("ProcessingError")
      [] value = 5 -> Ok("ExecutionFailure")
      [] value = 6 -> Ok("TxDone")
      [] OTHER     -> Ok("ExecutionFailure")

\* impl TryFrom<u8> for CommandStatus
CommandStatus_try_from(value) ==
    CASE value = 2 -> Ok("DataAvailable")
      [] value = 3 -> Ok("Timeout")
      [] value = 4 -> Ok("ProcessingError")
      [] value = 5 -> Ok("ExecutionFailure")
      [] value = 6 -> Ok("TxDone")
      [] OTHER     -> Err(CommandStatusError(value))

\* Status::from_bytes mutant: the command status is converted first
Status_from_bytes_cmd_first(bytes) ==
    LET mode == and7(shr(bytes[1], 4))
        cmd  == and7(shr(bytes[1], 1))
        m    == OperatingMode_try_from(mode)
        c    == CommandStatus_try_from(cmd)
    IN  IF c.tag = "Err" THEN Err(InvalidCommandStatus(c.val))
        ELSE IF m.tag = "Err" THEN Err(InvalidMode(m.val))
        ELSE Ok([mode |-> m.val, cmd_status |-> c.val])

\* impl FromByteArray for Status: the struct fields are evaluated in order,
\* each `?` returning the error at once
Status_from_bytes(bytes) ==
    LET mode == and7(shr(bytes[1], 4))
        cmd  == and7(shr(bytes[1], 1))
        m    == OperatingMode_try_from(mode)
        c    == CommandStatus_try_from(cmd)
    IN  IF m.tag = "Err" THEN Err(InvalidMode(m.val))
        ELSE IF c.tag = "Err" THEN Err(InvalidCommandStatus(c.val))
        ELSE Ok([mode |-> m.val, cmd_status |-> c.val])

\* A byte array read and not yet decoded
PendingDec(op, input) ==
    [op |-> op, input |-> input, outcome |-> "Pending", value |-> <<>>]

\* dec after a decoder returned r
Decoded(r) == [dec EXCEPT !.outcome = r.tag, !.value = r.val]

\* impl FromByteArray for GetRssiInstResponse
GetRssiInstResponse_from_bytes(bytes) ==
    LET status == unwrap(Status_from_bytes(<<bytes[1]>>))
    IN  IF status.tag = "Panic" THEN Panicked
        ELSE Ok([status |-> status.val, rssi |-> bytes[2]])

\* impl FromByteArray for RxBufferStatus
RxBufferStatus_from_bytes(bytes) ==
    Ok([payload_length |-> bytes[1], buffer_pointer |-> bytes[2]])

\* impl FromByteArray for GetRxBufferStatusResponse
GetRxBufferStatusResponse_from_bytes(bytes) ==
    LET status == unwrap(Status_from_bytes(<<bytes[1]>>))
        buffer_status == unwrap(RxBufferStatus_from_bytes(<<bytes[2], bytes[3]>>))
    IN  IF status.tag = "Panic" THEN Panicked
        ELSE Ok([status |-> status.val, buffer_status |-> buffer_status.val])

\* impl FromByteArray for PacketStatus
PacketStatus_from_bytes(bytes) == Ok([status |-> bytes])

\* impl FromByteArray for GetPacketStatusResponse
GetPacketStatusResponse_from_bytes(bytes) ==
    LET status == unwrap(Status_from_bytes(<<bytes[1]>>))
        packet_status ==
            unwrap(PacketStatus_from_bytes(<<bytes[2], bytes[3], bytes[4]>>))
    IN  IF status.tag = "Panic" THEN Panicked
        ELSE Ok([status |-> status.val, packet_status |-> packet_status.val])

\* byte & (1 << n) != 0
bit(byte, n) == shr(byte, n) % 2 = 1

\* impl FromByteArray for DeviceErrors
DeviceErrors_from_bytes(bytes) ==
    Ok([rc64k_calib_err |-> bit(bytes[2], 0),
        rc13m_calib_err |-> bit(bytes[2], 1),
        pll_calib_err   |-> bit(bytes[2], 2),
        adc_calib_err   |-> bit(bytes[2], 3),
        img_calib_err   |-> bit(bytes[2], 4),
        xosc_start_err  |-> bit(bytes[2], 5),
        pll_lock_err    |-> bit(bytes[2], 6),
        pa_ramp_err     |-> bit(bytes[1], 0)])

\* impl FromByteArray for GetDeviceErrorsResponse
GetDeviceErrorsResponse_from_bytes(bytes) ==
    LET status == unwrap(Status_from_bytes(<<bytes[1]>>))
        errors == unwrap(DeviceErrors_from_bytes(<<bytes[2], bytes[3]>>))
    IN  IF status.tag = "Panic" THEN Panicked
        ELSE Ok([status |-> status.val, errors |-> errors.val])

\* u16::from_be_bytes
u16_from_be_bytes(bytes) == (bytes[1] * 256) + bytes[2]

\* impl FromByteArray for Stats
Stats_from_bytes(bytes) ==
    Ok([packets_received     |-> u16_from_be_bytes(SubSeq(bytes, 1, 2)),
        packets_crc_error    |-> u16_from_be_bytes(SubSeq(bytes, 3, 4)),
        packets_header_error |-> u16_from_be_bytes(SubSeq(bytes, 5, 6))])

\* impl FromByteArray for GetStatsResponse
GetStatsResponse_from_bytes(bytes) ==
    LET status == unwrap(Status_from_bytes(<<bytes[1]>>))
        stats  == unwrap(Stats_from_bytes(SubSeq(bytes, 2, 7)))
    IN  IF status.tag = "Panic" THEN Panicked
        ELSE Ok([status |-> status.val, stats |-> stats.val])

\* The responses that carry a status byte in front of their payload, with the
\* width of the payload
StatusResponses ==
    [GetRssiInstResponse |-> 1, GetRxBufferStatusResponse |-> 2,
     GetPacketStatusResponse |-> 3, GetDeviceErrorsResponse |-> 2,
     GetStatsResponse |-> 6]

\* from_bytes of the response type named op
Response_from_bytes(op, bytes) ==
    CASE op = "GetRssiInstResponse" -> GetRssiInstResponse_from_bytes(bytes)
      [] op = "GetRxBufferStatusResponse" ->
            GetRxBufferStatusResponse_from_bytes(bytes)
      [] op = "GetPacketStatusResponse" ->
            GetPacketStatusResponse_from_bytes(bytes)
      [] op = "GetDeviceErrorsResponse" ->
            GetDeviceErrorsResponse_from_bytes(bytes)
      [] op = "GetStatsResponse" -> GetStatsResponse_from_bytes(bytes)

\* impl FromByteArray for PacketType
PacketType_from_bytes(bytes) ==
    CASE bytes[1] = 0 -> Ok("Gfsk")
      [] bytes[1] = 1 -> Ok("LoRa")
      [] OTHER        -> Ok("LoRa")

\* bitflags IrqMask: the bit position of each flag.  A mask value is the set
\* of its flags.
IrqFlags ==
    [TX_DONE |-> 0, RX_DONE |-> 1, PREAMBLE_DETECTED |-> 2,
     SYNC_WORD_VALID |-> 3, HEADER_ERROR |-> 4, CRC_ERROR |-> 5,
     CAD_DONE |-> 6, CAD_DETECTED |-> 7, TIMEOUT |-> 8]

\* 1 << n if the flag is in the mask
flag_bits(self, f) == IF f \in self THEN 2 ^ IrqFlags[f] ELSE 0

\* IrqMask::bits
IrqMask_bits(self) ==
    flag_bits(self, "TX_DONE") + flag_bits(self, "RX_DONE")
    + flag_bits(self, "PREAMBLE_DETECTED") + flag_bits(self, "SYNC_WORD_VALID")
    + flag_bits(self, "HEADER_ERROR") + flag_bits(self, "CRC_ERROR")
    + flag_bits(self, "CAD_DONE") + flag_bits(self, "CAD_DETECTED")
    + flag_bits(self, "TIMEOUT")

\* IrqMask::from_bits_truncate mutant: bits 7:0 only
IrqMask_from_bits_truncate_low(bits) ==
    { f \in DOMAIN IrqFlags : IrqFlags[f] < 8 /\ bit(bits, IrqFlags[f]) }

\* IrqMask::from_bits_truncate: the flags whose bit is set; other bits dropped
IrqMask_from_bits_truncate(bits) ==
    { f \in DOMAIN IrqFlags : bit(bits, IrqFlags[f]) }

\* IrqMask::to_bytes mutant: little-endian
IrqMask_to_bytes_le(self) ==
    [outcome |-> "Ok",
     bytes |-> <<IrqMask_bits(self) % 256, IrqMask_bits(self) \div 256>>]

\* impl ToByteArray for IrqMask
IrqMask_to_bytes(self) ==
    [outcome |-> "Ok", bytes |-> u16_to_be_bytes(IrqMask_bits(self))]

\* impl FromByteArray for IrqMask
IrqMask_from_bytes(bytes) ==
    Ok(IrqMask_from_bits_truncate(u16_from_be_bytes(bytes)))

\* Payloads offered behind the status byte of a response of width n
Payloads(n) ==
    { SubSeq(<<0, 0, 0, 0, 0, 0>>, 1, n), SubSeq(<<1, 200, 255, 18, 52, 86>>, 1, n) }

\* Low bytes offered to the IrqMask decoder
IrqLowBytes == {0, 1, 85, 170, 255}

DecInputs ==
    { PendingDec("OperatingMode", <<v>>) : v \in Bytes }
    \cup { PendingDec("CommandStatus", <<v>>) : v \in Bytes }
    \cup { PendingDec("Status", <<v>>) : v \in Bytes }
    \cup { PendingDec("PacketType", <<v>>) : v \in Bytes }
    \cup { PendingDec("IrqMask", <<hi, lo>>) : hi \in Bytes, lo \in IrqLowBytes }
    \cup UNION { { PendingDec(op, <<v>> \o pl) :
                      v \in Bytes, pl \in Payloads(StatusResponses[op]) } :
                  op \in DOMAIN StatusResponses }

\* Either a byte array waits to be decoded, or an IrqMask value waits to be
\* encoded and decoded back
InitDec ==
    /\ rl = RetentionListDefault
    /\ call = NoCall
    /\ wire = <<>>
    /\ dev = NoDev
    /\ \/ enc = NoEnc /\ dec \in DecInputs
       \/ dec = NoDec
          /\ enc \in { Pending("IrqMask", m) : m \in SUBSET DOMAIN IrqFlags }

\* OperatingMode::try_from(value)
DecodeOperatingMode ==
    /\ dec.op = "OperatingMode"
    /\ dec.outcome = "Pending"
    /\ dec' = Decoded(OperatingMode_try_from(dec.input[1]))
    /\ UNCHANGED <<rl, call, wire, enc, dev>>

\* CommandStatus::try_from(value)
DecodeCommandStatus ==
    /\ dec.op = "CommandStatus"
    /\ dec.outcome = "Pending"
    /\ dec' = Decoded(CommandStatus_try_from(dec.input[1]))
    /\ UNCHANGED <<rl, call, wire, enc, dev>>

\* Status::from_bytes(bytes)
DecodeStatus ==
    /\ dec.op = "Status"
    /\ dec.outcome = "Pending"
    /\ dec' = Decoded(Status_from_bytes(dec.input))
    /\ UNCHANGED <<rl, call, wire, enc, dev>>

\* from_bytes of a response that starts with the status byte
DecodeStatusResponse ==
    /\ dec.op \in DOMAIN StatusResponses
    /\ dec.outcome = "Pending"
    /\ dec' = Decoded(Response_from_bytes(dec.op, dec.input))
    /\ UNCHANGED <<rl, call, wire, enc, dev>>

\* PacketType::from_bytes(bytes)
DecodePacketType ==
    /\ dec.op = "PacketType"
    /\ dec.outcome = "Pending"
    /\ dec' = Decoded(PacketType_from_bytes(dec.input))
    /\ UNCHANGED <<rl, call, wire, enc, dev>>

\* IrqMask::from_bytes(bytes)
DecodeIrqMask ==
    /\ dec.op = "IrqMask"
    /\ dec.outcome = "Pending"
    /\ dec' = Decoded(IrqMask_from_bytes(dec.input))
    /\ UNCHANGED <<rl, call, wire, enc, dev>>

\* mask.to_bytes()
EncodeIrqMask ==
    /\ enc.op = "IrqMask"
    /\ enc.outcome = "Pending"
    /\ LET r == IrqMask_to_bytes(enc.input)
       IN  enc' = [enc EXCEPT !.outcome = r.outcome, !.bytes = r.bytes]
    /\ UNCHANGED <<rl, call, wire, dec, dev>>

\* IrqMask::from_bytes of the array to_bytes returned
DecodeEncodedIrqMask ==
    /\ enc.op = "IrqMask"
    /\ enc.outcome = "Ok"
    /\ dec = NoDec
    /\ LET r == IrqMask_from_bytes(enc.bytes)
       IN  dec' = [op |-> "IrqMask", input |-> enc.bytes, outcome |-> r.tag,
                   value |-> r.val]
    /\ UNCHANGED <<rl, call, wire, enc, dev>>

NextDec ==
    \/ DecodeOperatingMode
    \/ DecodeCommandStatus
    \/ DecodeStatus
    \/ DecodeStatusResponse
    \/ DecodePacketType
    \/ DecodeIrqMask
    \/ EncodeIrqMask
    \/ DecodeEncodedIrqMask

SpecDec == InitDec /\ [][NextDec]_vars

\* The decoder named op has returned (or panicked)
DecodedBy(op) == dec.op = op /\ dec.outcome # "Pending"

\* The three-bit field of a status byte that starts at bit n
Field(b, n) == (b \div (2 ^ n)) % 8

\* The variant of an enum table with the discriminant d
VariantOf(table, d) == CHOOSE v \in DOMAIN table : table[v] = d

\* C12 as stated: decoding the status byte 0x56 yields mode = Transmit and
\* cmd_status = Timeout.
C12_Original ==
    (DecodedBy("Status") /\ dec.input = <<86>>)
        => /\ dec.outcome = "Ok"
           /\ dec.value = [mode |-> "Transmit", cmd_status |-> "Timeout"]

\* C12, amended: decoding the status byte 0x56 (bits 6:4 = 101, bits 3:1 = 011)
\* yields mode = Receive and cmd_status = Timeout.
C12_Decode0x56 ==
    (DecodedBy("Status") /\ dec.input = <<86>>)
        => /\ dec.outcome = "Ok"
           /\ dec.value = [mode |-> "Receive", cmd_status |-> "Timeout"]

\* the status byte 0x56 has been decoded
C12_Witness == DecodedBy("Status") /\ dec.input = <<86>> /\ dec.outcome = "Ok"

\* C13: for every status byte, with m = bits 6:4 and c = bits 3:1 (bits 7 and 0
\* play no part): decoding succeeds exactly when m and c are both in 2..6, and
\* then yields the variants with these discriminants; when m is invalid the
\* error is InvalidMode(InvalidValue(m)), also when c is invalid too; when only
\* c is invalid the error is InvalidCommandStatus(InvalidValue(c)).
C13_StatusDecode ==
    DecodedBy("Status") =>
        LET m == Field(dec.input[1], 4)
            c == Field(dec.input[1], 1)
        IN  /\ dec.outcome \in {"Ok", "Err"}
            /\ dec.outcome = "Ok" <=> (m \in 2..6 /\ c \in 2..6)
            /\ dec.outcome = "Ok" =>
                  dec.value = [mode |-> VariantOf(OperatingMode, m),
                               cmd_status |-> VariantOf(CommandStatus, c)]
            /\ m \notin 2..6 =>
                  dec.value = [err |-> "StatusError::InvalidMode",
                               arg |-> [err |-> "OperatingModeError::InvalidValue",
                                        arg |-> m]]
            /\ (m \in 2..6 /\ c \notin 2..6) =>
                  dec.value = [err |-> "StatusError::InvalidCommandStatus",
                               arg |-> [err |-> "CommandStatusError::InvalidValue",
                                        arg |-> c]]

\* a status byte with both fields invalid and bits 7 and 0 set has been decoded
C13_Witness ==
    /\ DecodedBy("Status")
    /\ dec.input = <<255>>
    /\ dec.outcome = "Err"
    /\ dec.value.err = "StatusError::InvalidMode"

\* C14: for every byte v outside 2..6 the conversions of OperatingMode and of
\* CommandStatus fail with InvalidValue(v); for v in 2..6 they yield the one
\* variant whose discriminant is v.  An invalid byte is never given a variant.
C14_TryFromTotal ==
    /\ DecodedBy("OperatingMode") =>
          LET v == dec.input[1]
          IN  IF v \in 2..6
              THEN dec.outcome = "Ok" /\ dec.value = VariantOf(OperatingMode, v)
              ELSE /\ dec.outcome = "Err"
                   /\ dec.value = [err |-> "OperatingModeError::InvalidValue",
                                   arg |-> v]
    /\ DecodedBy("CommandStatus") =>
          LET v == dec.input[1]
          IN  IF v \in 2..6
              THEN dec.outcome = "Ok" /\ dec.value = VariantOf(CommandStatus, v)
              ELSE /\ dec.outcome = "Err"
                   /\ dec.value = [err |-> "CommandStatusError::InvalidValue",
                                   arg |-> v]

\* the byte 0x07 has been refused by the CommandStatus conversion
C14_Witness ==
    /\ DecodedBy("CommandStatus")
    /\ dec.input = <<7>>
    /\ dec.outcome = "Err"

\* The status byte b is one Status::from_bytes refuses
InvalidStatusByte(b) == Field(b, 4) \notin 2..6 \/ Field(b, 1) \notin 2..6

\* C15: when the leading status byte of a GetRssiInstResponse,
\* GetRxBufferStatusResponse, GetPacketStatusResponse, GetDeviceErrorsResponse
\* or GetStatsResponse is invalid, the decode returns an error: it yields no
\* value and it does not panic.
C15_InvalidStatusIsError ==
    (dec.op \in DOMAIN StatusResponses /\ dec.outcome # "Pending"
        /\ InvalidStatusByte(dec.input[1]))
        => dec.outcome = "Err"

\* C16: decoding a PacketType from any byte other than 0x00 and 0x01 returns
\* an error.
C16_PacketTypeRejects ==
    (DecodedBy("PacketType") /\ dec.input[1] \notin {0, 1})
        => dec.outcome = "Err"

\* The value of each interrupt flag as the claims give it
IrqWeight ==
    [TX_DONE |-> 1, RX_DONE |-> 2, PREAMBLE_DETECTED |-> 4,
     SYNC_WORD_VALID |-> 8, HEADER_ERROR |-> 16, CRC_ERROR |-> 32,
     CAD_DONE |-> 64, CAD_DETECTED |-> 128, TIMEOUT |-> 256]

RECURSIVE MaskValue(_)
\* The OR of the flag values of a set of flags
MaskValue(S) ==
    IF S = {} THEN 0
    ELSE LET f == CHOOSE x \in S : TRUE
         IN  IrqWeight[f] + MaskValue(S \ {f})

\* C17: for every subset of the nine flags, to_bytes yields the two big-endian
\* bytes of the OR of the flags' bits (TX_DONE bit 0 up to TIMEOUT bit 8), and
\* from_bytes of these bytes yields the same subset.
C17_IrqMaskRoundTrip ==
    /\ Encoded("IrqMask")
          => /\ enc.outcome = "Ok"
             /\ enc.bytes = <<MaskValue(enc.input) \div 256,
                              MaskValue(enc.input) % 256>>
    /\ (Encoded("IrqMask") /\ DecodedBy("IrqMask"))
          => /\ dec.input = enc.bytes
             /\ dec.outcome = "Ok"
             /\ dec.value = enc.input

\* the mask {RX_DONE, TIMEOUT} went through to_bytes and from_bytes
C17_Witness ==
    /\ Encoded("IrqMask")
    /\ DecodedBy("IrqMask")
    /\ enc.input = {"RX_DONE", "TIMEOUT"}
    /\ enc.bytes = <<1, 2>>
    /\ dec.value = {"RX_DONE", "TIMEOUT"}

\* C18: decoding an IrqMask from any two bytes succeeds, and the bits of the
\* result are the big-endian 16-bit input AND 0x01FF.
C18_IrqMaskTruncates ==
    (DecodedBy("IrqMask") /\ enc = NoEnc)
        => /\ dec.outcome = "Ok"
           /\ dec.value \subseteq DOMAIN IrqFlags
           /\ MaskValue(dec.value) = ((dec.input[1] * 256) + dec.input[2]) % 512

\* the bytes 0xFF 0xAA, with undefined bits set, have been decoded
C18_Witness ==
    /\ DecodedBy("IrqMask")
    /\ enc = NoEnc
    /\ dec.input = <<255, 170>>
    /\ dec.value = {"RX_DONE", "SYNC_WORD_VALID", "CRC_ERROR", "CAD_DETECTED",
                    "TIMEOUT"}

-----------------------------------------------------------------------------
(* Device: read_register, write_register and execute_command over an SPI     *)
(* device.  A call prepares the operations of its transaction, hands them to *)
(* SpiDevice::transaction (which succeeds or fails as the transport decides) *)
(* and, where there is a response, decodes it afterwards.  dev.log holds one *)
(* entry for each transaction the transport was asked for.                   *)

\* embedded_hal::spi::Operation::Write(bytes)
Write(bytes) == [kind |-> "Write", bytes |-> bytes, len |-> Len(bytes)]

\* embedded_hal::spi::Operation::Read(buffer), a buffer of n bytes
Read(n) == [kind |-> "Read", bytes |-> <<>>, len |-> n]

\* dst[from..].copy_from_slice(src): panics unless the two slices have the
\* same length
copy_from_slice(dst, from, src) ==
    IF Len(dst) - from # Len(src)
    THEN [panic |-> TRUE, value |-> dst]
    ELSE [panic |-> FALSE, value |-> SubSeq(dst, 1, from) \o src]

\* Commands: id(), the type of invoking_parameters() and the response type
Commands ==
    [GetStatus |-> [id |-> 192, params |-> "NoParameters", response |-> "Status"],
     GetRssiInst |->
        [id |-> 21, params |-> "NoParameters", response |-> "GetRssiInstResponse"],
     GetRxBufferStatus |->
        [id |-> 19, params |-> "NoParameters",
         response |-> "GetRxBufferStatusResponse"],
     GetPacketStatus |->
        [id |-> 20, params |-> "NoParameters",
         response |-> "GetPacketStatusResponse"],
     GetDeviceErrors |->
        [id |-> 23, params |-> "NoParameters",
         response |-> "GetDeviceErrorsResponse"],
     GetStats |->
        [id |-> 16, params |-> "NoParameters", response |-> "GetStatsResponse"],
     GetIrqStatus |->
        [id |-> 18, params |-> "NopParameters1", response |-> "IrqMask"],
     ClearIrqStatus |->
        [id |-> 2, params |-> "IrqMask", response |-> "NoParameters"],
     GetPacketType |->
        [id |-> 17, params |-> "NoParameters", response |-> "PacketType"],
     SetPacketType |->
        [id |-> 138, params |-> "PacketType", response |-> "NoParameters"],
     SetRfFrequency |->
        [id |-> 134, params |-> "RfFrequencyConfig", response |-> "NoParameters"],
     SetModulationParams |->
        [id |-> 139, params |-> "ModulationParams", response |-> "NoParameters"],
     SetPacketParams |->
        [id |-> 140, params |-> "PacketParams", response |-> "NoParameters"]]

\* Registers: id() and the length of Array
Registers ==
    [RetentionList   |-> [id |-> 761,  width |-> 2 * MAX_RETENTION_ENTRIES + 1],
     RtcControl      |-> [id |-> 2306, width |-> 1],
     XtaTrim         |-> [id |-> 2321, width |-> 1],
     XtbTrim         |-> [id |-> 2322, width |-> 1],
     EventMask       |-> [id |-> 2372, width |-> 1],
     CrcInitialValue |-> [id |-> 1724, width |-> 2],
     SyncWord        |-> [id |-> 1728, width |-> 8],
     DioOutputEnable       |-> [id |-> 1408, width |-> 1],
     DioInputEnable        |-> [id |-> 1411, width |-> 1],
     DioPullUpControl      |-> [id |-> 1412, width |-> 1],
     DioPullDownControl    |-> [id |-> 1413, width |-> 1],
     Dio3OutputVoltage     |-> [id |-> 2336, width |-> 1],
     WhiteningInitialValue |-> [id |-> 1720, width |-> 2],
     CrcPolynomial         |-> [id |-> 1726, width |-> 2],
     NodeAddress           |-> [id |-> 1741, width |-> 1],
     BroadcastAddress      |-> [id |-> 1742, width |-> 1],
     IqPolaritySetup       |-> [id |-> 1846, width |-> 1],
     LoraSyncWord          |-> [id |-> 1856, width |-> 2],
     TxModulation          |-> [id |-> 2185, width |-> 1],
     RxGain                |-> [id |-> 2220, width |-> 1],
     TxClampConfig         |-> [id |-> 2264, width |-> 1],
     OcpConfiguration      |-> [id |-> 2279, width |-> 1]]

\* The four DIO enable and pull registers: fields dio1, dio2, dio3
DioRegisters ==
    {"DioOutputEnable", "DioInputEnable", "DioPullUpControl",
     "DioPullDownControl"}

\* The registers that hold one big-endian u16 in the field value
U16Registers ==
    {"WhiteningInitialValue", "CrcInitialValue", "CrcPolynomial",
     "LoraSyncWord"}

\* struct InvalidGainMode(pub u8)
InvalidGainMode(b) == [err |-> "InvalidGainMode", arg |-> b]

\* RxGain::from_byte
RxGain_from_byte(value) ==
    CASE value = 148 -> Ok("PowerSaving")
      [] value = 150 -> Ok("Boosted")
      [] OTHER -> Err(InvalidGainMode(value))

\* RxGain::to_byte
RxGain_to_byte(self) ==
    CASE self = "PowerSaving" -> 148
      [] self = "Boosted" -> 150

\* enum PacketType (discriminants)
PacketType == [Gfsk |-> 0, LoRa |-> 1]

\* impl ToByteArray for PacketType
PacketType_to_bytes(self) == [outcome |-> "Ok", bytes |-> <<PacketType[self]>>]

\* impl ToByteArray for NopParameters<N>
NopParameters_to_bytes(n) ==
    [outcome |-> "Ok", bytes |-> SubSeq(<<0, 0, 0, 0>>, 1, n)]

\* to_bytes of a command's parameters, by their type
Params_to_bytes(type, self, overflow_checks) ==
    CASE type = "NoParameters" -> [outcome |-> "Ok", bytes |-> <<>>]
      [] type = "NopParameters1" -> NopParameters_to_bytes(1)
      [] type = "IrqMask" -> IrqMask_to_bytes(self)
      [] type = "PacketType" -> PacketType_to_bytes(self)
      [] type = "RfFrequencyConfig" ->
            RfFrequencyConfig_to_bytes(self, overflow_checks)
      [] type = "ModulationParams" ->
            ModulationParams_to_bytes(self, overflow_checks)
      [] type = "PacketParams" -> PacketParams_to_bytes(self)

\* x & 0x2F
and_0x2F(x) == (x % 16) + (32 * ((x \div 32) % 2))

\* impl FromByteArray for RetentionList
RetentionList_from_bytes(bytes) ==
    Ok([n_entries |-> bytes[1],
        entries |-> <<u16_from_be_bytes(SubSeq(bytes, 2, 3)),
                      u16_from_be_bytes(SubSeq(bytes, 4, 5)),
                      u16_from_be_bytes(SubSeq(bytes, 6, 7)),
                      u16_from_be_bytes(SubSeq(bytes, 8, 9))>>])

\* to_bytes of a register value, by its type
Register_to_bytes(type, self) ==
    CASE type = "RetentionList" -> RetentionList_to_bytes(self)
      [] type = "RtcControl" -> <<bool_as_u8(self.enabled)>>
      [] type \in {"XtaTrim", "XtbTrim"} -> <<and_0x2F(self.value)>>
      [] type = "EventMask" -> <<self.mask>>
      [] type \in U16Registers -> u16_to_be_bytes(self.value)
      [] type = "SyncWord" -> self.value
      [] type \in DioRegisters ->
            <<bool_as_u8(self.dio1) + (2 * bool_as_u8(self.dio2))
                  + (4 * bool_as_u8(self.dio3))>>
      [] type = "Dio3OutputVoltage" -> <<and7(self.voltage)>>
      [] type \in {"NodeAddress", "BroadcastAddress"} -> <<self.address>>
      [] type = "IqPolaritySetup" -> <<bool_as_u8(self.inverted_iq)>>
      [] type = "TxModulation" -> <<self.data>>
      [] type = "RxGain" -> <<RxGain_to_byte(self)>>
      [] type = "TxClampConfig" -> <<self.config>>
      [] type = "OcpConfiguration" -> <<self.threshold>>

\* from_bytes of a register, by its type
Register_from_bytes(type, bytes) ==
    CASE type = "RetentionList" -> RetentionList_from_bytes(bytes)
      [] type = "RtcControl" -> Ok([enabled |-> bytes[1] % 2 # 0])
      [] type \in {"XtaTrim", "XtbTrim"} -> Ok([value |-> and_0x2F(bytes[1])])
      [] type = "EventMask" -> Ok([mask |-> bytes[1]])
      [] type \in U16Registers -> Ok([value |-> u16_from_be_bytes(bytes)])
      [] type = "SyncWord" -> Ok([value |-> bytes])
      [] type \in DioRegisters ->
            Ok([dio1 |-> bit(bytes[1], 0), dio2 |-> bit(bytes[1], 1),
                dio3 |-> bit(bytes[1], 2)])
      [] type = "Dio3OutputVoltage" -> Ok([voltage |-> and7(bytes[1])])
      [] type \in {"NodeAddress", "BroadcastAddress"} ->
            Ok([address |-> bytes[1]])
      [] type = "IqPolaritySetup" -> Ok([inverted_iq |-> bit(bytes[1], 0)])
      [] type = "TxModulation" -> Ok([data |-> bytes[1]])
      [] type = "RxGain" -> RxGain_from_byte(bytes[1])
      [] type = "TxClampConfig" -> Ok([config |-> bytes[1]])
      [] type = "OcpConfiguration" -> Ok([threshold |-> bytes[1]])

\* The length of Array of a response type
ResponseWidth(type) ==
    CASE type = "NoParameters" -> 0
      [] type = "Status" -> 1
      [] type = "PacketType" -> 1
      [] type = "IrqMask" -> 2
      [] type \in DOMAIN StatusResponses -> StatusResponses[type] + 1

\* from_bytes of a response, by its type
Response_decode(type, bytes) ==
    CASE type = "NoParameters" -> Ok(<<>>)
      [] type = "Status" -> Status_from_bytes(bytes)
      [] type = "PacketType" -> PacketType_from_bytes(bytes)
      [] type = "IrqMask" -> IrqMask_from_bytes(bytes)
      [] type \in DOMAIN StatusResponses -> Response_from_bytes(type, bytes)

\* read_register up to the transaction: the header and the two operations
read_register_ops(R) ==
    LET header == copy_from_slice(<<29, 0, 0, 0>>, 1,
                                  u16_to_be_bytes(Registers[R].id))
    IN  IF header.panic THEN [panic |-> TRUE, ops |-> <<>>]
        ELSE [panic |-> FALSE,
              ops |-> <<Write(header.value), Read(Registers[R].width)>>]

\* write_register up to the transaction
write_register_ops(R, register) ==
    LET header == copy_from_slice(<<13, 0, 0>>, 1,
                                  u16_to_be_bytes(Registers[R].id))
    IN  IF header.panic THEN [panic |-> TRUE, ops |-> <<>>]
        ELSE [panic |-> FALSE,
              ops |-> <<Write(header.value),
                        Write(Register_to_bytes(R, register))>>]

\* execute_command up to the transaction: to_bytes().unwrap() of the
\* parameters, the response array, the three operations
execute_command_ops(C, command, overflow_checks) ==
    LET request == Params_to_bytes(Commands[C].params, command, overflow_checks)
    IN  IF request.outcome # "Ok" THEN [panic |-> TRUE, ops |-> <<>>]
        ELSE [panic |-> FALSE,
              ops |-> <<Write(<<Commands[C].id>>), Write(request.bytes),
                        Read(ResponseWidth(Commands[C].response))>>]

\* write_buffer up to the transaction
write_buffer_ops(offset, bytes) ==
    [panic |-> FALSE, ops |-> <<Write(<<14, offset>>), Write(bytes)>>]

\* read_buffer mutant: the header has no dummy byte
read_buffer_ops_no_dummy(offset, len) ==
    [panic |-> FALSE, ops |-> <<Write(<<30, offset>>), Read(len)>>]

\* read_buffer up to the transaction; len is the length of the caller's buffer
read_buffer_ops(offset, len) ==
    [panic |-> FALSE, ops |-> <<Write(<<30, offset, 0>>), Read(len)>>]

\* read_register_async up to the transaction
read_register_async_ops(R) ==
    LET header == copy_from_slice(<<29, 0, 0, 0>>, 1,
                                  u16_to_be_bytes(Registers[R].id))
    IN  IF header.panic THEN [panic |-> TRUE, ops |-> <<>>]
        ELSE [panic |-> FALSE,
              ops |-> <<Write(header.value), Read(Registers[R].width)>>]

\* write_register_async up to the transaction
write_register_async_ops(R, register) ==
    LET header == copy_from_slice(<<13, 0, 0>>, 1,
                                  u16_to_be_bytes(Registers[R].id))
    IN  IF header.panic THEN [panic |-> TRUE, ops |-> <<>>]
        ELSE [panic |-> FALSE,
              ops |-> <<Write(header.value),
                        Write(Register_to_bytes(R, register))>>]

\* write_buffer_async up to the transaction
write_buffer_async_ops(offset, bytes) ==
    [panic |-> FALSE, ops |-> <<Write(<<14, offset>>), Write(bytes)>>]

\* read_buffer_async up to the transaction
read_buffer_async_ops(offset, len) ==
    [panic |-> FALSE, ops |-> <<Write(<<30, offset, 0>>), Read(len)>>]

\* execute_command_async mutant: the opcode and the parameters are written
\* as one span
execute_command_async_ops_one_span(C, command, overflow_checks) ==
    LET request == Params_to_bytes(Commands[C].params, command, overflow_checks)
    IN  IF request.outcome # "Ok" THEN [panic |-> TRUE, ops |-> <<>>]
        ELSE [panic |-> FALSE,
              ops |-> <<Write(<<Commands[C].id>> \o request.bytes),
                        Read(ResponseWidth(Commands[C].response))>>]

\* execute_command_async up to the transaction
execute_command_async_ops(C, command, overflow_checks) ==
    LET request == Params_to_bytes(Commands[C].params, command, overflow_checks)
    IN  IF request.outcome # "Ok" THEN [panic |-> TRUE, ops |-> <<>>]
        ELSE [panic |-> FALSE,
              ops |-> <<Write(<<Commands[C].id>>), Write(request.bytes),
                        Read(ResponseWidth(Commands[C].response))>>]

\* Status bytes the chip answers with
Statuses == Bytes

\* Byte arrays the chip may put into the read buffer of a response type
RxInputs(type) ==
    CASE type = "NoParameters" -> { <<>> }
      [] type = "Status" -> { <<v>> : v \in Statuses }
      [] type = "PacketType" -> { <<0>>, <<1>>, <<2>>, <<255>> }
      [] type = "IrqMask" -> { <<hi, lo>> : hi \in {0, 1, 255}, lo \in IrqLowBytes }
      [] type \in DOMAIN StatusResponses ->
            { <<v>> \o pl : v \in Statuses, pl \in Payloads(StatusResponses[type]) }

\* Byte arrays the chip may put into the read buffer of a register
RegisterRxInputs(R) ==
    { SubSeq(<<0, 0, 0, 0, 0, 0, 0, 0, 0>>, 1, Registers[R].width),
      SubSeq(<<2, 2, 249, 9, 17, 255, 255, 18, 52>>, 1, Registers[R].width) }

\* Register values written
RegisterValues(R) ==
    CASE R = "RetentionList" ->
            { RetentionListDefault,
              [n_entries |-> 2, entries |-> <<761, 2321, 0, 0>>] }
      [] R = "RtcControl" -> { [enabled |-> b] : b \in BOOLEAN }
      [] R \in {"XtaTrim", "XtbTrim"} -> { [value |-> v] : v \in {5, 47, 255} }
      [] R = "EventMask" -> { [mask |-> v] : v \in {0, 165} }
      [] R = "CrcInitialValue" -> { [value |-> v] : v \in {7439, 65535} }
      [] R = "SyncWord" -> { [value |-> <<1, 2, 3, 4, 5, 6, 7, 8>>] }
      [] R \in DioRegisters ->
            { [dio1 |-> TRUE, dio2 |-> FALSE, dio3 |-> TRUE] }
      [] R = "Dio3OutputVoltage" -> { [voltage |-> 7] }
      [] R \in U16Registers -> { [value |-> 4129] }
      [] R \in {"NodeAddress", "BroadcastAddress"} -> { [address |-> 171] }
      [] R = "IqPolaritySetup" -> { [inverted_iq |-> TRUE] }
      [] R = "TxModulation" -> { [data |-> 4] }
      [] R = "RxGain" -> { "PowerSaving", "Boosted" }
      [] R = "TxClampConfig" -> { [config |-> 200] }
      [] R = "OcpConfiguration" -> { [threshold |-> 56] }

\* Command values executed
CommandValues(C) ==
    CASE Commands[C].params \in {"NoParameters", "NopParameters1"} -> { <<>> }
      [] C = "ClearIrqStatus" ->
            { {}, {"RX_DONE", "TIMEOUT"}, DOMAIN IrqFlags }
      [] C = "SetPacketType" -> DOMAIN PacketType
      [] C = "SetRfFrequency" ->
            { [frequency |-> Hz(868, 0)], [frequency |-> Hz(4294, 967295)] }
      [] C = "SetModulationParams" ->
            { [variant |-> "Gfsk", bit_rate |-> ToDigits(br, 8),
               pulse_shape |-> "Bt05", bandwidth |-> "Bw117",
               freq_deviation |-> Hz(0, 25000)] : br \in {0, 9600} }
            \cup { [variant |-> "LoRa", spreading_factor |-> sf,
                    bandwidth |-> "Bw125", coding_rate |-> "Cr45",
                    low_data_rate_opt |-> TRUE] : sf \in {"SF7"} }
      [] C = "SetPacketParams" ->
            { [variant |-> "LoRa", preamble_length |-> 8,
               header_type |-> "Variable", payload_length |-> 255,
               crc_enable |-> TRUE, iq_inversion_enable |-> FALSE] }

\* The longest caller buffer handed to write_buffer and read_buffer
MaxBufLen == 3

\* Bytes of the caller's buffers, and bytes the chip puts into them
BufPattern == <<165, 0, 255, 18, 52, 86, 120, 154>>

\* Offsets into the 256-byte data buffer
Offsets == {0, 128, 255}

\* The blocking methods and their async forms
Forms == {"blocking", "async"}

\* A Device method called and not yet run
DevCall(form, op, target, arg) ==
    [NoDev EXCEPT !.pc = "call", !.form = form, !.op = op, !.target = target,
                  !.arg = arg]

\* d is a call of one of the methods with one of the values above
IsDevCall(d) ==
    \E form \in Forms :
        \/ \E C \in DOMAIN Commands : \E v \in CommandValues(C) :
              d = DevCall(form, "execute_command", C, v)
        \/ \E R \in DOMAIN Registers :
              d = DevCall(form, "read_register", R, <<>>)
        \/ \E R \in DOMAIN Registers : \E v \in RegisterValues(R) :
              d = DevCall(form, "write_register", R, v)
        \/ \E offset \in Offsets : \E n \in 0..MaxBufLen :
              d = DevCall(form, "write_buffer", "buffer",
                          [offset |-> offset, bytes |-> SubSeq(BufPattern, 1, n)])
        \/ \E offset \in Offsets : \E n \in 0..MaxBufLen :
              d = DevCall(form, "read_buffer", "buffer",
                          [offset |-> offset, len |-> n])

InitDev ==
    /\ rl = RetentionListDefault
    /\ call = NoCall
    /\ wire = <<>>
    /\ enc = NoEnc
    /\ dec = NoDec
    /\ IsDevCall(dev)

\* The statements of a blocking method before its transaction
blocking_ops(op, target, arg, overflow_checks) ==
    CASE op = "read_register" -> read_register_ops(target)
      [] op = "write_register" -> write_register_ops(target, arg)
      [] op = "write_buffer" -> write_buffer_ops(arg.offset, arg.bytes)
      [] op = "read_buffer" -> read_buffer_ops(arg.offset, arg.len)
      [] op = "execute_command" ->
            execute_command_ops(target, arg, overflow_checks)

\* The statements of an async method before its transaction
async_ops(op, target, arg, overflow_checks) ==
    CASE op = "read_register" -> read_register_async_ops(target)
      [] op = "write_register" -> write_register_async_ops(target, arg)
      [] op = "write_buffer" -> write_buffer_async_ops(arg.offset, arg.bytes)
      [] op = "read_buffer" -> read_buffer_async_ops(arg.offset, arg.len)
      [] op = "execute_command" ->
            execute_command_async_ops(target, arg, overflow_checks)

\* The call runs up to its transaction: it builds the header or encodes the
\* parameters, and panics where that code panics
DevPrepare ==
    /\ dev.pc = "call"
    /\ \E overflow_checks \in BOOLEAN :
          LET p == IF dev.form = "blocking"
                   THEN blocking_ops(dev.op, dev.target, dev.arg, overflow_checks)
                   ELSE async_ops(dev.op, dev.target, dev.arg, overflow_checks)
          IN  dev' = IF p.panic
                     THEN [dev EXCEPT !.pc = "done", !.result = Panicked]
                     ELSE [dev EXCEPT !.pc = "txn", !.ops = p.ops]
    /\ UNCHANGED <<rl, call, wire, enc, dec>>

\* The type whose from_bytes decodes what the call read
ReadType(d) ==
    IF d.op = "execute_command" THEN Commands[d.target].response ELSE d.target

\* What the transport may put into the read buffer of the call
RxChoices(d) ==
    CASE d.op = "execute_command" -> RxInputs(ReadType(d))
      [] d.op = "read_register" -> RegisterRxInputs(d.target)
      [] d.op = "read_buffer" ->
            { SubSeq(BufPattern, k, k + d.arg.len - 1) : k \in 1..2 }
      [] OTHER -> { <<>> }

\* .map_err(|_| BusError) on the result of the transaction: a failure returns
\* BusError; after a success the write methods and read_buffer return Ok(()),
\* read_register and execute_command go on to decode what was read
Completed(d, ok, rx) ==
    IF ~ok THEN [d EXCEPT !.pc = "done", !.result = Err("BusError")]
    ELSE IF d.op \in {"write_register", "write_buffer"}
    THEN [d EXCEPT !.pc = "done", !.txn_ok = TRUE, !.result = Ok(<<>>)]
    ELSE IF d.op = "read_buffer"
    THEN [d EXCEPT !.pc = "done", !.txn_ok = TRUE, !.rx = rx, !.result = Ok(<<>>)]
    ELSE [d EXCEPT !.pc = "decode", !.txn_ok = TRUE, !.rx = rx]

\* self.spi.transaction(&mut [...]) of a blocking method: the operations are
\* handed to the transport, which fails or succeeds
DevTransaction ==
    /\ dev.pc = "txn"
    /\ dev.form = "blocking"
    /\ \E ok \in BOOLEAN : \E rx \in RxChoices(dev) :
          dev' = Completed([dev EXCEPT !.log = Append(@, dev.ops)], ok, rx)
    /\ UNCHANGED <<rl, call, wire, enc, dec>>

\* self.spi.transaction(&mut [...]).await of an async method: the operations
\* are handed to the transport and the call is suspended
DevAwait ==
    /\ dev.pc = "txn"
    /\ dev.form = "async"
    /\ dev' = [dev EXCEPT !.pc = "await", !.log = Append(@, dev.ops)]
    /\ UNCHANGED <<rl, call, wire, enc, dec>>

\* The transaction of a suspended async method fails or succeeds, and the
\* call resumes
DevResume ==
    /\ dev.pc = "await"
    /\ \E ok \in BOOLEAN : \E rx \in RxChoices(dev) :
          dev' = Completed(dev, ok, rx)
    /\ UNCHANGED <<rl, call, wire, enc, dec>>

\* from_bytes(raw).map_err(|_| DeserializationError) of what d read
decode_result(d) ==
    LET r == IF d.op = "execute_command"
             THEN Response_decode(ReadType(d), d.rx)
             ELSE Register_from_bytes(d.target, d.rx)
    IN  CASE r.tag = "Ok" -> r
          [] r.tag = "Err" -> Err("DeserializationError")
          [] OTHER -> Panicked

\* from_bytes(raw).map_err(|_| DeserializationError)
DevDecode ==
    /\ dev.pc = "decode"
    /\ dev' = [dev EXCEPT !.pc = "done", !.decoded = TRUE,
                          !.result = decode_result(dev)]
    /\ UNCHANGED <<rl, call, wire, enc, dec>>

NextDev == DevPrepare \/ DevTransaction \/ DevAwait \/ DevResume \/ DevDecode

SpecDev == InitDev /\ [][NextDev]_vars

\* The call named op has returned or panicked
Returned(op) == dev.op = op /\ dev.pc = "done"

\* The response read by an execute_command starts with a status byte that
\* cannot be decoded
UndecodableResponse ==
    /\ ReadType(dev) \in {"Status"} \cup DOMAIN StatusResponses
    /\ InvalidStatusByte(dev.rx[1])

\* C19: execute_command hands the transport one transaction of three
\* operations in this order: write the one opcode byte, write the encoded
\* parameters, read as many bytes as the response type is wide.  The response is
\* decoded only after the transaction succeeded.  When the transport fails the
\* call returns BusError and nothing is decoded; when the transaction succeeded
\* and the response cannot be decoded the call returns DeserializationError.
C19_ExecuteCommand ==
    dev.op = "execute_command" =>
        /\ dev.log # <<>> =>
              /\ Len(dev.log) = 1
              /\ Len(dev.log[1]) = 3
              /\ dev.log[1][1].kind = "Write"
              /\ dev.log[1][1].bytes = <<Commands[dev.target].id>>
              /\ dev.log[1][2].kind = "Write"
              /\ dev.log[1][3].kind = "Read"
              /\ dev.log[1][3].len = ResponseWidth(Commands[dev.target].response)
        /\ dev.decoded => dev.txn_ok
        /\ (dev.pc = "done" /\ dev.log # <<>> /\ ~dev.txn_ok) =>
              /\ dev.result.tag = "Err"
              /\ dev.result.val = "BusError"
              /\ ~dev.decoded
        /\ (dev.pc = "done" /\ dev.txn_ok /\ UndecodableResponse) =>
              /\ dev.result.tag = "Err"
              /\ dev.result.val = "DeserializationError"

\* read_register hands the transport the four header bytes and a read of the
\* register's width
ReadFraming ==
    Returned("read_register") =>
        LET A == Registers[dev.target].id
            N == Registers[dev.target].width
        IN  /\ Len(dev.log) = 1
            /\ Len(dev.log[1]) = 2
            /\ dev.log[1][1].kind = "Write"
            /\ dev.log[1][1].bytes = <<29, A \div 256, A % 256, 0>>
            /\ dev.log[1][2].kind = "Read"
            /\ dev.log[1][2].len = N

\* write_register hands the transport the three header bytes and the encoded
\* value, and no read
WriteFraming ==
    Returned("write_register") =>
        LET A == Registers[dev.target].id
            N == Registers[dev.target].width
        IN  /\ Len(dev.log) = 1
            /\ Len(dev.log[1]) = 2
            /\ dev.log[1][1].kind = "Write"
            /\ dev.log[1][1].bytes = <<13, A \div 256, A % 256>>
            /\ dev.log[1][2].kind = "Write"
            /\ dev.log[1][2].len = N

\* C20: for every register with address A and width N, read_register writes
\* exactly the header 0x1D, A high byte, A low byte, 0x00 and then reads
\* exactly N bytes; write_register writes exactly 0x0D, A high byte, A low byte
\* followed by the N encoded bytes of the value, and reads nothing.
C20_RegisterFraming == ReadFraming /\ WriteFraming

\* C21: write_buffer(offset, bytes) writes exactly the header 0x0E, offset
\* followed by the caller's bytes unchanged; read_buffer(offset, buf) writes
\* exactly 0x1E, offset, 0x00 and then reads exactly len(buf) bytes into the
\* caller's buffer.  Neither checks offset + length against the 256 bytes of
\* the chip's buffer: such a call goes to the transport like any other.
C21_BufferFraming ==
    /\ (Returned("write_buffer") /\ dev.form = "blocking") =>
          /\ dev.log = << <<Write(<<14, dev.arg.offset>>), Write(dev.arg.bytes)>> >>
          /\ dev.result.tag \in {"Ok", "Err"}
          /\ dev.result.tag = "Ok" <=> dev.txn_ok
    /\ (Returned("read_buffer") /\ dev.form = "blocking") =>
          /\ dev.log = << <<Write(<<30, dev.arg.offset, 0>>), Read(dev.arg.len)>> >>
          /\ dev.result.tag \in {"Ok", "Err"}
          /\ dev.result.tag = "Ok" <=> dev.txn_ok
          /\ dev.txn_ok => Len(dev.rx) = dev.arg.len

\* read_buffer of MaxBufLen bytes at offset 255, past the end of the chip's
\* buffer, has returned Ok with the bytes read
C21_Witness ==
    /\ Returned("read_buffer")
    /\ dev.form = "blocking"
    /\ dev.arg.offset = 255
    /\ dev.arg.len = MaxBufLen
    /\ dev.arg.offset + dev.arg.len > 256
    /\ dev.result.tag = "Ok"
    /\ Len(dev.rx) = MaxBufLen

\* C22: every Device method, blocking or async, asks the transport for exactly
\* one transaction per call, whatever the outcome; when the transport fails the
\* call returns BusError at once, with no second transaction and nothing
\* decoded.
C22_OneTransaction ==
    /\ Len(dev.log) <= 1
    /\ dev.pc = "done" =>
          /\ Len(dev.log) = 1
          /\ ~dev.txn_ok =>
                /\ dev.result.tag = "Err"
                /\ dev.result.val = "BusError"
                /\ ~dev.decoded

\* What the blocking method returns for the call d when the transport behaves
\* as it did for d
BlockingResult(d) ==
    LET blk == Completed([d EXCEPT !.form = "blocking"], d.txn_ok, d.rx)
    IN  IF blk.pc = "decode" THEN decode_result(blk) ELSE blk.result

\* C23: the async form of each method hands the transport the same sequence
\* of write spans and read lengths as the blocking form called with the same
\* arguments, and with the same transport behaviour returns the same result
\* (a value, BusError or DeserializationError; a panic where the blocking form
\* panics).
C23_AsyncEquivalent ==
    (dev.form = "async" /\ dev.pc # "call") =>
        \E overflow_checks \in BOOLEAN :
            LET b == blocking_ops(dev.op, dev.target, dev.arg, overflow_checks)
            IN  /\ b.panic <=> (dev.pc = "done" /\ dev.result.tag = "Panic"
                                  /\ dev.log = <<>>)
                /\ ~b.panic =>
                      /\ dev.ops = b.ops
                      /\ dev.pc # "txn" => dev.log = <<b.ops>>
                      /\ dev.pc = "done" =>
                            /\ dev.result.tag = BlockingResult(dev).tag
                            /\ dev.result.val = BlockingResult(dev).val

\* execute_command_async(GetStatus) has returned a decoded status
C23_Witness ==
    /\ dev.form = "async"
    /\ Returned("execute_command")
    /\ dev.target = "GetStatus"
    /\ dev.result.tag = "Ok"
    /\ dev.result.val = [mode |-> "Receive", cmd_status |-> "Timeout"]

-----------------------------------------------------------------------------
(* Invariants of RetentionList, checked under Spec *)

\* C27: in every list reached from RetentionList::default() by add_entry and
\* remove_entry calls, successful or failing, 0 <= n_entries <= 4; so
\* get_entries does not slice out of bounds, no call panics, and the counter
\* is incremented only below 4 and decremented only above 0.
C27_CapacityInvariant ==
    /\ rl.n_entries \in 0..MAX_RETENTION_ENTRIES
    /\ ~get_entries(rl).panic
    /\ call.ret # "Panic"
    /\ (call.op = "add_entry" /\ rl.n_entries # call.pre.n_entries)
          => (call.pre.n_entries < MAX_RETENTION_ENTRIES
              /\ rl.n_entries = call.pre.n_entries + 1)
    /\ (call.op = "remove_entry" /\ rl.n_entries # call.pre.n_entries)
          => (call.pre.n_entries > 0
              /\ rl.n_entries = call.pre.n_entries - 1)

\* add_entry of a new address has failed on a full list
C27_Witness ==
    /\ call.op = "add_entry"
    /\ call.ret = "Err"
    /\ ~Live(call.pre, call.arg)
    /\ rl.n_entries = MAX_RETENTION_ENTRIES
    /\ Len(get_entries(rl).slice) = MAX_RETENTION_ENTRIES

\* C28: in every list reached from RetentionList::default() by add_entry and
\* remove_entry calls, the live entries (slots 0..n_entries-1) are pairwise
\* distinct, though stale values remain in the slots beyond the live count.
C28_SetInvariant ==
    \A i \in 1..rl.n_entries : \A j \in 1..rl.n_entries :
        i # j => rl.entries[i] # rl.entries[j]

\* after a removal a stale slot holds the same address as a live one
C28_Witness ==
    /\ rl.n_entries \in 1..(MAX_RETENTION_ENTRIES - 1)
    /\ \E i \in 1..rl.n_entries :
          \E j \in (rl.n_entries + 1)..MAX_RETENTION_ENTRIES :
              /\ rl.entries[i] = rl.entries[j]
              /\ rl.entries[i] # 0

\* C30: on a list with fewer than 4 live entries and an address a that is not
\* live, add_entry(a) returns Ok, and remove_entry(a) called next returns Ok
\* and leaves the live count and the live entries, in their order, as they
\* were before the add.
C30_AddThenRemove ==
    [][ /\ ( /\ call'.op = "add_entry"
             /\ rl.n_entries < MAX_RETENTION_ENTRIES
             /\ ~Live(rl, call'.arg) )
           => call'.ret = "Ok"
        /\ ( /\ call.op = "add_entry"
             /\ call.pre.n_entries < MAX_RETENTION_ENTRIES
             /\ ~Live(call.pre, call.arg)
             /\ call'.op = "remove_entry"
             /\ call'.arg = call.arg )
           => ( /\ call'.ret = "Ok"
                /\ rl'.n_entries = call.pre.n_entries
                /\ get_entries(rl').slice = get_entries(call.pre).slice ) ]_vars

\* remove_entry has removed the last live entry of a list of three, leaving
\* its address in the stale slot
C30_Witness ==
    /\ call.op = "remove_entry"
    /\ call.ret = "Ok"
    /\ call.pre.n_entries = 3
    /\ call.pre.entries[3] = call.arg
    /\ rl.n_entries = 2
    /\ rl.entries[3] = call.arg
    /\ get_entries(rl).slice = SubSeq(call.pre.entries, 1, 2)

-----------------------------------------------------------------------------
(* SetRx parameters, checked under SpecEnc *)

\* Byte k (1..4) of the big-endian bytes of a u32 given in hexadecimal digits
ByteOf(t, k) == (16 * t[(2 * k) - 1]) + t[2 * k]

\* C26: RxMode::Single encodes as the timeout 0x000000, RxMode::Continuous as
\* 0xFFFFFF and RxMode::Timed(t) as t, each written as the 4 big-endian bytes
\* of the 32-bit value; so Timed(t) gives the bytes of Single exactly when
\* t = 0 and the bytes of Continuous exactly when t = 0xFFFFFF.
C26_SetRxMapping ==
    Encoded("SetRx") =>
        LET mode == enc.input.mode
        IN  /\ enc.outcome = "Ok"
            /\ Len(enc.bytes) = 4
            /\ mode.variant = "Single" => enc.bytes = <<0, 0, 0, 0>>
            /\ mode.variant = "Continuous" => enc.bytes = <<0, 255, 255, 255>>
            /\ mode.variant = "Timed" =>
                  /\ \A k \in 1..4 : enc.bytes[k] = ByteOf(mode.timeout, k)
                  /\ enc.bytes = <<0, 0, 0, 0>>
                        <=> mode.timeout = <<0, 0, 0, 0, 0, 0, 0, 0>>
                  /\ enc.bytes = <<0, 255, 255, 255>>
                        <=> mode.timeout = <<0, 0, 15, 15, 15, 15, 15, 15>>

\* Timed(0x01FFFFFF), which differs from Continuous only in bit 24, has been
\* encoded
C26_Witness ==
    /\ Encoded("SetRx")
    /\ enc.input.mode.variant = "Timed"
    /\ enc.input.mode.timeout = <<0, 1, 15, 15, 15, 15, 15, 15>>
    /\ enc.bytes = <<1, 255, 255, 255>>

-----------------------------------------------------------------------------
(* Register values: to_bytes, from_bytes and the RetentionList a read
   returns.  One register value is encoded and the array decoded again, or
   one byte array is decoded; a decoded RetentionList is then operated on. *)

\* u16 values offered to the 16-bit registers
U16Values == {0, 1, 255, 256, 4129, 4660, 7439, 65280, 65535}

\* Sync words offered
SyncWordValues ==
    { <<0, 0, 0, 0, 0, 0, 0, 0>>, <<1, 2, 3, 4, 5, 6, 7, 8>>,
      <<255, 255, 255, 255, 255, 255, 255, 255>>,
      <<151, 35, 82, 37, 86, 83, 101, 100>> }

\* Retention lists the methods of RetentionList build (the fields are private)
RetentionListValues ==
    { RetentionListDefault,
      [n_entries |-> 1, entries |-> <<761, 0, 0, 0>>],
      [n_entries |-> 2, entries |-> <<761, 2321, 0, 0>>],
      [n_entries |-> 1, entries |-> <<2321, 761, 0, 0>>],
      [n_entries |-> 4, entries |-> <<761, 2321, 2322, 2306>>] }

\* The values of a register type: every value of a one-byte or boolean field,
\* the values above for the wider ones
RegisterDomain(R) ==
    CASE R = "RetentionList" -> RetentionListValues
      [] R = "RtcControl" -> { [enabled |-> b] : b \in BOOLEAN }
      [] R \in {"XtaTrim", "XtbTrim"} -> { [value |-> v] : v \in Bytes }
      [] R = "EventMask" -> { [mask |-> v] : v \in Bytes }
      [] R \in U16Registers -> { [value |-> v] : v \in U16Values }
      [] R = "SyncWord" -> { [value |-> v] : v \in SyncWordValues }
      [] R \in DioRegisters ->
            { [dio1 |-> a, dio2 |-> b, dio3 |-> c] :
                  a \in BOOLEAN, b \in BOOLEAN, c \in BOOLEAN }
      [] R = "Dio3OutputVoltage" -> { [voltage |-> v] : v \in Bytes }
      [] R \in {"NodeAddress", "BroadcastAddress"} ->
            { [address |-> v] : v \in Bytes }
      [] R = "IqPolaritySetup" -> { [inverted_iq |-> b] : b \in BOOLEAN }
      [] R = "TxModulation" -> { [data |-> v] : v \in Bytes }
      [] R = "RxGain" -> { "PowerSaving", "Boosted" }
      [] R = "TxClampConfig" -> { [config |-> v] : v \in Bytes }
      [] R = "OcpConfiguration" -> { [threshold |-> v] : v \in Bytes }

\* Count bytes offered in a 9-byte RetentionList array: the valid counts, the
\* first one past the capacity, and the largest
CountBytes == {0, 1, 2, 3, 4, 5, 255}

\* Entry bytes offered in a 9-byte RetentionList array
EntryBytes ==
    { <<0, 0, 0, 0, 0, 0, 0, 0>>,
      <<2, 249, 9, 17, 9, 18, 9, 2>>,
      <<2, 249, 2, 249, 9, 17, 9, 17>> }

\* Byte arrays handed to from_bytes of a register type
RegisterArrays(R) ==
    CASE R = "RetentionList" ->
            { <<n>> \o es : n \in CountBytes, es \in EntryBytes }
      [] Registers[R].width = 1 -> { <<b>> : b \in Bytes }
      [] Registers[R].width = 2 -> { u16_to_be_bytes(v) : v \in U16Values }
      [] R = "SyncWord" -> SyncWordValues

InitReg ==
    /\ rl = RetentionListDefault
    /\ call = NoCall
    /\ wire = <<>>
    /\ dev = NoDev
    /\ \E R \in DOMAIN Registers :
          \/ /\ dec = NoDec
             /\ \E v \in RegisterDomain(R) :
                   enc = Pending("Register", [type |-> R, value |-> v])
          \/ /\ enc = NoEnc
             /\ \E b \in RegisterArrays(R) :
                   dec = PendingDec("Register", [type |-> R, bytes |-> b])

\* register.to_bytes()
EncodeRegister ==
    /\ enc.op = "Register"
    /\ enc.outcome = "Pending"
    /\ enc' = [enc EXCEPT !.outcome = "Ok",
                          !.bytes = Register_to_bytes(enc.input.type,
                                                      enc.input.value)]
    /\ UNCHANGED <<rl, call, wire, dec, dev>>

\* R::from_bytes of the array to_bytes returned
DecodeEncodedRegister ==
    /\ enc.op = "Register"
    /\ enc.outcome = "Ok"
    /\ dec.op = "none"
    /\ LET r == Register_from_bytes(enc.input.type, enc.bytes)
       IN  dec' = [op |-> "Register",
                   input |-> [type |-> enc.input.type, bytes |-> enc.bytes],
                   outcome |-> r.tag, value |-> r.val]
    /\ UNCHANGED <<rl, call, wire, enc, dev>>

\* R::from_bytes(bytes); a RetentionList that comes out is kept in rl
DecodeRegister ==
    /\ dec.op = "Register"
    /\ dec.outcome = "Pending"
    /\ LET r == Register_from_bytes(dec.input.type, dec.input.bytes)
       IN  /\ dec' = Decoded(r)
           /\ rl' = IF dec.input.type = "RetentionList" /\ r.tag = "Ok"
                    THEN r.val ELSE rl
    /\ UNCHANGED <<call, wire, enc, dev>>

\* A RetentionList has been decoded from a byte array and not yet used
FreshDecodedList ==
    /\ dec.op = "Register"
    /\ dec.outcome = "Ok"
    /\ dec.input.type = "RetentionList"
    /\ enc.op = "none"
    /\ call.op = "none"

\* list.get_entries() on the decoded list
GetEntriesDecoded ==
    /\ FreshDecodedList
    /\ call' = [op |-> "get_entries", arg |-> 0,
                ret |-> IF get_entries(rl).panic THEN "Panic" ELSE "Ok",
                pre |-> rl]
    /\ UNCHANGED <<rl, wire, enc, dec, dev>>

\* list.add_entry(a) on the decoded list
AddEntryDecoded ==
    /\ FreshDecodedList
    /\ \E a \in Addrs :
          LET r == add_entry(rl, a)
          IN  /\ rl' = r.self
              /\ call' = [op |-> "add_entry", arg |-> a, ret |-> r.ret,
                          pre |-> rl]
    /\ UNCHANGED <<wire, enc, dec, dev>>

\* list.remove_entry(a) on the decoded list
RemoveEntryDecoded ==
    /\ FreshDecodedList
    /\ \E a \in Addrs :
          LET r == remove_entry(rl, a)
          IN  /\ rl' = r.self
              /\ call' = [op |-> "remove_entry", arg |-> a, ret |-> r.ret,
                          pre |-> rl]
    /\ UNCHANGED <<wire, enc, dec, dev>>

NextReg ==
    \/ EncodeRegister
    \/ DecodeEncodedRegister
    \/ DecodeRegister
    \/ GetEntriesDecoded
    \/ AddEntryDecoded
    \/ RemoveEntryDecoded

\* Register values encoded and decoded
SpecReg == InitReg /\ [][NextReg]_vars

\* A register value has been encoded and the array decoded again
RoundTripped(R) ==
    /\ enc.op = "Register"
    /\ enc.input.type = R
    /\ enc.outcome = "Ok"
    /\ dec.op = "Register"

\* C24: for every register type that has both an encoder and a decoder, and
\* every representable value v of it, decoding the bytes v encodes to
\* succeeds and gives back v.
C24_RegisterRoundTrip ==
    \A R \in DOMAIN Registers :
        RoundTripped(R) =>
            /\ dec.outcome = "Ok"
            /\ dec.value = enc.input.value

\* The trim values 0x00..=0x2F
TrimValues == 0..47

\* C25: for every trim value v in 0x00..=0x2F, XtaTrim and XtbTrim encode to
\* the single byte v, and decoding the byte v yields v.
C25_TrimCodec ==
    /\ \A R \in {"XtaTrim", "XtbTrim"} :
          (/\ enc.op = "Register"
           /\ enc.input.type = R
           /\ enc.outcome = "Ok"
           /\ enc.input.value.value \in TrimValues)
              => enc.bytes = <<enc.input.value.value>>
    /\ (/\ dec.op = "Register"
        /\ dec.outcome # "Pending"
        /\ dec.input.type \in {"XtaTrim", "XtbTrim"}
        /\ dec.input.bytes[1] \in TrimValues)
           => /\ dec.outcome = "Ok"
              /\ dec.value.value = dec.input.bytes[1]

\* C29: a RetentionList decoded from any 9-byte array has a live count of at
\* most 4, and get_entries, add_entry and remove_entry on it complete without
\* an out-of-bounds access or a panic.
C29_DecodedListSafe ==
    (/\ dec.op = "Register"
     /\ dec.outcome = "Ok"
     /\ dec.input.type = "RetentionList"
     /\ enc.op = "none")
        => /\ call.pre.n_entries <= MAX_RETENTION_ENTRIES
           /\ rl.n_entries <= MAX_RETENTION_ENTRIES
           /\ call.ret # "Panic"
=============================================================================
